---- MODULE Spec2Model ----
(***************************************************************************)
(* Model of diskcache.core.Cache: the Cache and Settings tables with the   *)
(* triggers that couple them, the value files under the cache directory,   *)
(* and the statement-by-statement execution of set, get, delete, expire,   *)
(* evict and clear by Cache instances that share one directory.  The       *)
(* connection runs in autocommit mode (isolation_level=None), so every SQL *)
(* statement is one atomic step and every file operation is another.       *)
(***************************************************************************)
EXTENDS Integers, Sequences, FiniteSets, TLC

\* ------------------------------------------------------------------ bounds
MaxOps == 2        \* operations started by the instances sharing a directory
MaxRaceOps == 3    \* operations started in the race on one key
MaxSoloOps == 3    \* operations started by an instance that runs alone
MaxTime == 2       \* the clock runs 0..MaxTime
MaxLen == 2        \* longest bytes value; also the large-value threshold
MaxCheckOps == 2   \* check calls on a cache that was left damaged
MaxIndexOps == 3   \* operations started where reads and deletes are indexed
MaxStatsOps == 3   \* operations started where stats is among them
MaxOpens == 3      \* constructor calls on a fresh directory
MaxSweepOps == 3   \* operations started where expire and evict run alone
MaxWrapCalls == 2  \* calls of the function the stampede barrier wraps
MaxDraw == 3       \* random.random() draws 0.0 and e^-k for k < MaxDraw
MaxCodecOps == 2   \* sets of values of every kind by one instance
MaxCullOps == 2    \* sets on a cache that holds rows with expiry times
MaxPolicyOps == 3  \* gets and sets under each eviction policy
MaxReopenOps == 3  \* operations started while a directory in use is opened

\* --------------------------------------------------------------- constants
NULL == -1                     \* SQL NULL / Python None in a numeric column
MODE_NONE == 0
MODE_RAW == 1
MODE_BINARY == 2
MODE_TEXT == 3
MODE_PICKLE == 4
page_size == 1                 \* bytes per database page (scaled)
page_count == 1                \* pages of the database file (scaled)

Insts == {1, 2}                \* Cache instances opened on the directory
Keys == {"a", "b"}
Tags == {NULL, 7}
Policies == {"least-recently-stored", "least-recently-used",
             "least-frequently-used"}

\* A payload: `len` bytes, identified by `id` (0 is None, -1 is the caller's
\* default marker).
None == [len |-> 0, id |-> 0]
ENOVAL == [len |-> 0, id |-> -1]

large_value_threshold == MaxLen

\* ------------------------------------------------------------------- state
VARIABLES
    Cache,      \* the Cache table: a set of rows
    Settings,   \* the Settings table: tuning values and the live counters
    files,      \* the value files on disk: records [name, data]
    dirs,       \* the subdirectories of the cache directory: paths
    attr,       \* per instance: the attributes its constructor set
    clock,      \* time.time()
    self,       \* per instance: position in the running operation and locals
    last,       \* per instance: the operation that returned last (history)
    prev,       \* per instance: the operation that returned before `last`
    commits,    \* per key: payload ids whose versioned update affected a row
    lost,       \* payload ids whose versioned update affected no row
    seen,       \* per instance and key: highest commit index a get returned
    nextId,     \* source of fresh payload ids and file names (uuid4)
    ops         \* operations that may still be started

vars == <<Cache, Settings, files, dirs, attr, clock, self, last, prev,
          commits, lost, seen, nextId, ops>>

\* ------------------------------------------------------------- Disk (codec)
\* Disk.store: fields (size, mode, filename, value) for a value of the given
\* type and length; `fname` is the path _prep_file would return.
\* MIN_INT <= value <= MAX_INT: an integer sqlite stores natively.
InRange(data) == ~("big" \in DOMAIN data /\ data.big)

\* op.getsize of the file a text was written to in UTF-8: its characters
\* and the further bytes of those that take more than one.
getsize(data) == data.len + (IF "wide" \in DOMAIN data THEN data.wide ELSE 0)

\* len(pickle.dumps(value))
dumps(data) == data.len

\* A Disk.store that compares the length of bytes with <= threshold.
store_inclusive(type, data, read, threshold, fname) ==
    IF \/ (type = "text" /\ data.len < threshold)
       \/ (type = "int" /\ InRange(data))
       \/ type = "float"
    THEN [size |-> 0, mode |-> MODE_RAW, filename |-> NULL, value |-> data,
          file |-> FALSE]
    ELSE IF type = "bytes"
    THEN IF data.len <= threshold
         THEN [size |-> data.len, mode |-> MODE_RAW, filename |-> NULL,
               value |-> data, file |-> FALSE]
         ELSE [size |-> data.len, mode |-> MODE_BINARY, filename |-> fname,
               value |-> None, file |-> TRUE]
    ELSE IF type = "text"
    THEN [size |-> getsize(data), mode |-> MODE_TEXT, filename |-> fname,
          value |-> None, file |-> TRUE]
    ELSE IF read
    THEN [size |-> data.len, mode |-> MODE_BINARY, filename |-> fname,
          value |-> None, file |-> TRUE]
    ELSE IF dumps(data) < threshold
         THEN [size |-> 0, mode |-> MODE_PICKLE, filename |-> NULL,
               value |-> data, file |-> FALSE]
         ELSE [size |-> dumps(data), mode |-> MODE_PICKLE, filename |-> fname,
               value |-> None, file |-> TRUE]

store(type, data, read, threshold, fname) ==
    IF \/ (type = "text" /\ data.len < threshold)
       \/ (type = "int" /\ InRange(data))
       \/ type = "float"
    THEN [size |-> 0, mode |-> MODE_RAW, filename |-> NULL, value |-> data,
          file |-> FALSE]
    ELSE IF type = "bytes"
    THEN IF data.len < threshold
         THEN [size |-> data.len, mode |-> MODE_RAW, filename |-> NULL,
               value |-> data, file |-> FALSE]
         ELSE [size |-> data.len, mode |-> MODE_BINARY, filename |-> fname,
               value |-> None, file |-> TRUE]
    ELSE IF type = "text"
    THEN [size |-> getsize(data), mode |-> MODE_TEXT, filename |-> fname,
          value |-> None, file |-> TRUE]
    ELSE IF read
    THEN [size |-> data.len, mode |-> MODE_BINARY, filename |-> fname,
          value |-> None, file |-> TRUE]
    ELSE IF dumps(data) < threshold
         THEN [size |-> 0, mode |-> MODE_PICKLE, filename |-> NULL,
               value |-> data, file |-> FALSE]
         ELSE [size |-> dumps(data), mode |-> MODE_PICKLE, filename |-> fname,
               value |-> None, file |-> TRUE]

FileNamed(name) == {f \in files : f.name = name}

\* Disk.fetch: the value of a row, or ENOENT when its file is gone.
fetch(mode, filename, value) ==
    IF mode = MODE_RAW THEN [ok |-> TRUE, data |-> value]
    ELSE IF mode \in {MODE_BINARY, MODE_TEXT}
            \/ (mode = MODE_PICKLE /\ value = None)
    THEN IF FileNamed(filename) = {}
         THEN [ok |-> FALSE, data |-> None]
         ELSE [ok |-> TRUE, data |-> (CHOOSE f \in FileNamed(filename) : TRUE).data]
    ELSE IF mode = MODE_PICKLE THEN [ok |-> TRUE, data |-> value]
    ELSE [ok |-> TRUE, data |-> None]

\* Cache._prep_file: the subdirectory <hh>/<hh> of a file, the first four
\* hex digits of its name (names are numbers here, digits are bits).
sub_dir(name) == <<name % 2, (name \div 2) % 2>>

\* os.makedirs: the directory and its parent exist afterwards.
makedirs(ds, path) == ds \cup {<<path[1]>>, path}

\* A _remove that leaves the file where it is.
RemoveNothing(fs, filename) == fs

\* Cache._remove: unlink, ENOENT ignored.
_remove(fs, filename) == {f \in fs : f.name # filename}

\* ------------------------------------------------------------ the database
NoRow == [rowid |-> 0, key |-> "", version |-> 0, store_time |-> NULL,
          expire_time |-> NULL, access_time |-> NULL, access_count |-> 0,
          tag |-> NULL, size |-> 0, mode |-> MODE_NONE, filename |-> NULL,
          value |-> None]

\* A SELECT that leaves out the WHERE clause.
RowOfAny(k) ==
    IF Cache # {}
    THEN CHOOSE r \in Cache : TRUE
    ELSE NoRow

\* SELECT ... FROM Cache WHERE key = ? AND raw = ?  (fetchone)
RowOf(k) ==
    IF \E r \in Cache : r.key = k
    THEN CHOOSE r \in Cache : r.key = k
    ELSE NoRow

\* rowid INTEGER PRIMARY KEY: one more than the largest rowid in the table.
NewRowid ==
    IF Cache = {} THEN 1
    ELSE (CHOOSE m \in {r.rowid : r \in Cache} :
              \A r \in Cache : r.rowid <= m) + 1

\* Triggers that keep the metadata of Settings updated.
Settings_count_insert(S) == [S EXCEPT !.count = @ + 1]

CountDeleteSkipped(S) == S

Settings_count_delete(S) == [S EXCEPT !.count = @ - 1]

Settings_size_insert(S, new) == [S EXCEPT !.size = @ + new.size]

SizeUpdateForgetsOld(S, new, old) == [S EXCEPT !.size = @ + new.size]

Settings_size_update(S, new, old) == [S EXCEPT !.size = @ + new.size - old.size]

Settings_size_delete(S, old) == [S EXCEPT !.size = @ - old.size]

\* SELECT COALESCE(SUM(size), 0) FROM Cache
RECURSIVE SumSize(_)
SumSize(R) ==
    IF R = {} THEN 0
    ELSE LET r == CHOOSE r \in R : TRUE IN r.size + SumSize(R \ {r})

\* The rows of R as a list in ascending col, ties in rowid order (the order
\* of the index on col); NULL sorts first.
RECURSIVE OrderBy(_, _)
OrderBy(R, col) ==
    IF R = {} THEN <<>>
    ELSE LET m == CHOOSE r \in R : \A q \in R :
                      \/ r[col] < q[col]
                      \/ (r[col] = q[col] /\ r.rowid <= q.rowid)
         IN <<m>> \o OrderBy(R \ {m}, col)

\* A LIMIT that returns one row less.
LimitShort(s, n) == IF Len(s) < n THEN s ELSE SubSeq(s, 1, n - 1)

\* LIMIT n
Limit(s, n) == IF Len(s) <= n THEN s ELSE SubSeq(s, 1, n)

\* The payload id a committed row holds, inline or in its file (a file is
\* named after the payload written to it).
ValueId(r) == IF r.filename # NULL THEN r.filename ELSE r.value.id

\* SELECT rowid, version, filename: the triple _delete takes (and, as
\* history, the payload the selected row held).
Triple(r) == [rowid |-> r.rowid, version |-> r.version,
              filename |-> r.filename, expire_time |-> r.expire_time,
              id |-> ValueId(r)]

Triples(s) == [n \in 1..Len(s) |-> Triple(s[n])]

\* A 'set' query that orders by store_time under every policy.
PolicyColumnStored(policy) == "store_time"

\* The column the eviction policy's 'set' query orders by.
PolicyColumn(policy) ==
    IF policy = "least-recently-stored" THEN "store_time"
    ELSE IF policy = "least-recently-used" THEN "access_time"
    ELSE "access_count"

total_size == page_size * page_count + Settings.size

\* --------------------------------------------------- instances and history
NoStore == [size |-> 0, mode |-> MODE_NONE, filename |-> NULL, value |-> None,
            file |-> FALSE]

\* A Settings table with no row; an object with no attribute.
NoSettings == [k \in {} |-> 0]

\* The rows and files an operation found when it was called (history).
NoSnap == [rows |-> {}, files |-> {}]

Snap == [rows |-> Cache, files |-> files]

\* The locals of the stampede barrier's wrapper, and what its last call came
\* to (history): `entry` is the tuple cache[key] gave, `draw` the logarithm
\* of random.random(), `calls` the calls of the wrapped function, `tuple` what
\* was handed to cache.set.
NoWrap == [pc |-> "none", expire |-> NULL, entry |-> <<>>, now |-> 0,
           ttl |-> 0, draw |-> 0, result |-> 0, delta |-> 0, expire_time |-> 0,
           calls |-> 0, tuple |-> <<>>, outcome |-> "none", returned |-> 0]

\* The wrapper has made the call it was about to make.
Nested(w) ==
    IF w.pc = "lookup" THEN [w EXCEPT !.pc = "got"]
    ELSE IF w.pc = "set" THEN [w EXCEPT !.pc = "stored"]
    ELSE w

\* The locals of an instance that runs no operation.
Idle == [pc |-> "idle", op |-> "none", key |-> "", data |-> None,
         expire |-> NULL, tag |-> NULL, version |-> 0, filename |-> NULL,
         staged |-> NoStore, now |-> 0, cull_limit |-> 0, rows |-> <<>>,
         loop |-> "none", cursor |-> 0, row |-> NoRow, culled |-> 0,
         result |-> ENOVAL, committed |-> FALSE, raised |-> "none",
         fix |-> FALSE, read |-> 0, filenames |-> {}, fixed |-> {},
         snap |-> NoSnap, absent |-> FALSE, io |-> "none", counted |-> "none",
         enable |-> TRUE, reset |-> FALSE, pair |-> <<0, 0>>,
         temp |-> NoSettings, todo |-> <<>>, removed |-> 0, wrap |-> NoWrap,
         reading |-> FALSE, victims |-> <<>>, total_size |-> NULL,
         rowcount |-> 0, wrong |-> FALSE, settings |-> NoSettings]

\* The index of payload id among the commits of key k, 0 if it is not one.
CommitIndex(k, id) ==
    IF \E n \in 1..Len(commits[k]) : commits[k][n] = id
    THEN CHOOSE n \in 1..Len(commits[k]) : commits[k][n] = id
    ELSE 0

\* Row r is the entry that was read as row q: no set or delete came between.
SameEntry(r, q) ==
    /\ r.rowid = q.rowid
    /\ r.key = q.key
    /\ r.version = q.version
    /\ r.filename = q.filename
    /\ r.value = q.value

\* The rows an expire or an evict(tag) is to remove, among those it found
\* when it was called.
Targets(s) ==
    IF s.op = "expire"
    THEN {r \in s.snap.rows : r.expire_time # NULL /\ r.expire_time < s.now}
    ELSE IF s.op = "evict"
    THEN {r \in s.snap.rows : r.tag = s.tag}
    ELSE {}

\* An indexed read that leaves out the test of the value it got.
KeyErrorNever(s) == FALSE

\* __getitem__: get with default ENOVAL, and KeyError if that comes back.
KeyError(s) == s.op = "getitem" /\ s.result = ENOVAL

\* What is remembered of an operation that returned: its call, its result,
\* and the state it returned in.
Returned(s) ==
    [op |-> s.op, key |-> s.key, data |-> s.data, expire |-> s.expire,
     result |-> s.result, committed |-> s.committed, culled |-> s.culled,
     cull_limit |-> Settings.cull_limit, staged |-> s.staged.filename,
     row |-> s.row, now |-> s.now,
     intact |-> /\ \E r \in Cache' : SameEntry(r, s.row)
                /\ s.row.filename # NULL =>
                       \E f \in files' : f.name = s.row.filename,
     total |-> page_size * page_count + Settings'.size,
     empty |-> Cache' = {},
     tag |-> s.tag, removed |-> s.removed,
     raised |-> IF s.raised = "none" /\ KeyError(s) THEN "KeyError"
                ELSE s.raised,
     fix |-> s.fix, fixed |-> s.fixed,
     absent |-> s.absent, io |-> s.io, counted |-> s.counted,
     victims |-> s.victims, total_size |-> s.total_size,
     wrong |-> s.wrong,
     rest |-> \A r \in s.snap.rows : r.rowid # s.row.rowid => r \in Cache',
     still |-> /\ Cache' = Cache
               /\ Settings' = Settings
               /\ files' = files
               /\ dirs' = dirs,
     gone |-> \A r \in Targets(s) :
                 /\ r \notin Cache'
                 /\ r.filename # NULL =>
                        ~\E f \in files' : f.name = r.filename,
     kept |-> \A r \in s.snap.rows \ Targets(s) :
                 /\ r \in Cache'
                 /\ \A f \in s.snap.files :
                        f.name = r.filename => f \in files']

NoOp == [op |-> "none", key |-> "", data |-> None, expire |-> NULL,
         result |-> ENOVAL, committed |-> FALSE, culled |-> 0,
         cull_limit |-> 0, staged |-> NULL, row |-> NoRow, now |-> 0,
         intact |-> FALSE, total |-> 0, empty |-> TRUE, raised |-> "none",
         fix |-> FALSE, fixed |-> {}, absent |-> FALSE, io |-> "none",
         tag |-> NULL, removed |-> 0,
         counted |-> "none", still |-> TRUE,
         victims |-> <<>>, total_size |-> NULL, rest |-> TRUE,
         wrong |-> FALSE,
         gone |-> TRUE, kept |-> TRUE]

\* The call before the last one, in short.
Before(r) == [op |-> r.op, key |-> r.key, data |-> r.data, expire |-> r.expire,
              committed |-> r.committed]

\* Instance i goes on with locals s, or returns when s.pc is "return".
Goto(i, s) ==
    IF s.pc = "return"
    THEN /\ self' = [self EXCEPT ![i] = [Idle EXCEPT !.wrap = s.wrap]]
         /\ last' = [last EXCEPT ![i] = Returned(s)]
         /\ prev' = [prev EXCEPT ![i] = Before(last[i])]
         /\ seen' = IF s.op = "get" /\ s.result # ENOVAL
                    THEN [seen EXCEPT ![i][s.key] = CommitIndex(s.key, s.result.id)]
                    ELSE seen
    ELSE /\ self' = [self EXCEPT ![i] = s]
         /\ UNCHANGED <<last, prev, seen>>

\* Where a loop over selected rows goes when its rows are used up.
AfterLoop(s) ==
    IF s.loop = "expired"
    THEN IF s.cull_limit = 0 THEN "return" ELSE "set_total"
    ELSE IF s.loop \in {"policy", "delete"} THEN "return"
    ELSE IF s.loop = "expire" THEN "expire_select"
    ELSE IF s.loop = "evict" THEN "evict_select"
    ELSE IF s.loop = "reserved" THEN "check_scan"
    ELSE IF s.loop = "check_files" THEN "check_files"
    ELSE "clear_select"

\* Where the body of a loop over selected rows starts: check tests the file
\* of the row first, every other loop calls _delete.
LoopPc(s) == IF s.loop = "check_files" THEN "check_exists" ELSE "delete"

\* A for loop over `rows` starts: its first row, or what follows the loop.
Loop(s, rows, loop) ==
    LET t == [s EXCEPT !.rows = rows, !.loop = loop]
    IN [t EXCEPT !.pc = IF rows = <<>> THEN AfterLoop(t) ELSE LoopPc(t)]

\* A chunk of a while loop: break if not rows, else the for loop over them.
Chunk(s, rows, loop) ==
    IF rows = <<>> THEN [s EXCEPT !.pc = "return"] ELSE Loop(s, rows, loop)

\* The for loop is done with its first row.
Advance(s) ==
    LET t == [s EXCEPT !.rows = Tail(s.rows)]
    IN [t EXCEPT !.pc = IF t.rows = <<>> THEN AfterLoop(t) ELSE LoopPc(t)]

\* ----------------------------------------------------------------- configs
Config(p, l, c, st) ==
    [count |-> 0, size |-> 0, hits |-> 0, misses |-> 0, statistics |-> st,
     eviction_policy |-> p, size_limit |-> l, cull_limit |-> c]

\* The settings the sharing instances are opened with: size pressure on
\* every write, and none at all.
Configs ==
    {Config("least-recently-used", 1, 1, 1),
     Config("least-frequently-used", 2 * MaxLen + 2, 2, 0)}

\* The settings for the race on one key: size pressure once a value is in a
\* file.
RaceConfigs ==
    {Config("least-recently-used", MaxLen + 1, 1, 1)}

\* The settings of an instance that runs alone.
SoloConfigs ==
    {Config(p, l, c, 1) :
        p \in Policies, l \in {1, MaxLen + 1, 2 * MaxLen + 2}, c \in {1, 2}}

InitWith(configs, budget) ==
    /\ Cache = {}
    /\ Settings \in configs
    /\ files = {}
    /\ dirs = {}
    /\ attr = [i \in Insts |-> Settings]
    /\ clock = 0
    /\ self = [i \in Insts |-> Idle]
    /\ last = [i \in Insts |-> NoOp]
    /\ prev = [i \in Insts |-> Before(NoOp)]
    /\ commits = [k \in Keys |-> <<>>]
    /\ lost = {}
    /\ seen = [i \in Insts |-> [k \in Keys |-> 0]]
    /\ nextId = 1
    /\ ops = budget

Init == InitWith(Configs, MaxOps)

\* The state a lone set("a", <MaxLen - 1 bytes>) at time 0 leaves behind
\* under the settings c: one committed inline row, counted by the triggers.
WarmRow ==
    [NoRow EXCEPT !.rowid = 1, !.key = "a", !.version = 1, !.store_time = 0,
                  !.access_time = 0, !.size = MaxLen - 1, !.mode = MODE_RAW,
                  !.value = [len |-> MaxLen - 1, id |-> 1]]

WarmInit(configs, budget) ==
    /\ Cache = {WarmRow}
    /\ \E c \in configs :
          /\ Settings = [c EXCEPT !.count = 1, !.size = WarmRow.size]
          /\ attr = [i \in Insts |-> c]
    /\ files = {}
    /\ dirs = {}
    /\ clock = 0
    /\ self = [i \in Insts |-> Idle]
    /\ last = [i \in Insts |-> NoOp]
    /\ prev = [i \in Insts |-> Before(NoOp)]
    /\ commits = [k \in Keys |-> IF k = "a" THEN <<1>> ELSE <<>>]
    /\ lost = {}
    /\ seen = [i \in Insts |-> [k \in Keys |-> 0]]
    /\ nextId = 2
    /\ ops = budget

\* The race starts on an empty cache or on one that holds the key.
InitRace ==
    \/ InitWith(RaceConfigs, MaxRaceOps)
    \/ WarmInit(RaceConfigs, MaxRaceOps)

InitSolo == InitWith(SoloConfigs, MaxSoloOps)

\* An operation is called: it uses up one of the operations left, unless the
\* stampede wrapper calls it (then the wrapper's call was the one counted).
Call(i) ==
    /\ self[i].pc = "idle"
    /\ IF self[i].wrap.pc = "none"
       THEN ops > 0 /\ ops' = ops - 1
       ELSE ops' = ops

\* time.time(): the clock may have advanced since it was read last.
Times == clock..MaxTime

\* --------------------------------------------------------------------- set
\* What set is called with: a bytes value of a length, an expiry, a tag.
SetInputs ==
    {[len |-> MaxLen - 1, expire |-> NULL, tag |-> NULL],
     [len |-> MaxLen, expire |-> NULL, tag |-> 7],
     [len |-> MaxLen, expire |-> 1, tag |-> NULL]}

\* The value set is called with: bytes, or the tuple the stampede wrapper
\* stores.
Value(in, id) ==
    IF "tuple" \in DOMAIN in
    THEN [len |-> in.len, id |-> id, tuple |-> in.tuple]
    ELSE IF "type" \in DOMAIN in
    THEN [len |-> in.len, id |-> id, type |-> in.type, wide |-> in.wide,
          big |-> in.big]
    ELSE [len |-> in.len, id |-> id]

\* What Disk.store tells the types of values apart by.
TypeOf(data) ==
    IF "tuple" \in DOMAIN data THEN "tuple"
    ELSE IF "type" \in DOMAIN data THEN data.type
    ELSE "bytes"

\* set is called; SELECT version, filename FROM Cache WHERE key = ? AND raw = ?
SetLookup(i, k, in) ==
    /\ Call(i)
    /\ nextId' = nextId + 1
    /\ UNCHANGED <<dirs, attr, Cache, Settings, files, clock, commits, lost>>
    /\ LET row == RowOf(k)
           s == [Idle EXCEPT !.op = "set", !.key = k,
                             !.data = Value(in, nextId),
                             !.wrap = Nested(self[i].wrap),
                             !.reading = "read" \in DOMAIN in /\ in.read,
                             !.expire = in.expire, !.tag = in.tag,
                             !.version = IF row # NoRow THEN row.version ELSE 0,
                             !.filename = IF row # NoRow THEN row.filename ELSE NULL]
       IN Goto(i, [s EXCEPT !.pc = IF row = NoRow THEN "set_insert"
                                   ELSE IF row.filename # NULL THEN "set_remove"
                                   ELSE "set_store"])

\* INSERT OR IGNORE INTO Cache(key, raw) VALUES (?, ?): the reservation row.
SetInsert(i) ==
    /\ self[i].pc = "set_insert"
    /\ UNCHANGED <<dirs, attr, files, clock, commits, lost, nextId, ops>>
    /\ LET new == [NoRow EXCEPT !.rowid = NewRowid, !.key = self[i].key]
       IN IF RowOf(self[i].key) = NoRow
          THEN /\ Cache' = Cache \cup {new}
               /\ Settings' = Settings_size_insert(Settings_count_insert(Settings), new)
          ELSE UNCHANGED <<Cache, Settings>>
    /\ Goto(i, [self[i] EXCEPT !.pc = "set_store"])

\* Remove existing file if present.
SetRemove(i) ==
    /\ self[i].pc = "set_remove"
    /\ UNCHANGED <<dirs, attr, Cache, Settings, clock, commits, lost, nextId, ops>>
    /\ files' = _remove(files, self[i].filename)
    /\ Goto(i, [self[i] EXCEPT !.pc = "set_store"])

\* Prepare value for disk storage (Disk.store), then now = time.time().
SetStore(i) ==
    /\ self[i].pc = "set_store"
    /\ UNCHANGED <<attr, Cache, Settings, commits, lost, nextId, ops>>
    /\ \E now \in Times :
         LET st == store(TypeOf(self[i].data), self[i].data,
                         self[i].reading, large_value_threshold,
                         self[i].data.id)
         IN /\ files' = IF st.file
                        THEN files \cup {[name |-> st.filename, data |-> self[i].data]}
                        ELSE files
            /\ dirs' = IF st.file THEN makedirs(dirs, sub_dir(st.filename))
                       ELSE dirs
            /\ clock' = now
            /\ Goto(i, [self[i] EXCEPT !.pc = "set_update", !.staged = st,
                                       !.now = now])

next_version(version) == version + 1

expire_time(now, expire) == IF expire = NULL THEN NULL ELSE now + expire

\* An UPDATE that leaves out the test on version.
UpdateAnyVersion(k, version) == {r \in Cache : r.key = k}

\* The rows UPDATE Cache ... WHERE key = ? AND raw = ? AND version = ? changes.
UpdateWhere(k, version) == {r \in Cache : r.key = k /\ r.version = version}

\* UPDATE Cache SET ... WHERE key = ? AND raw = ? AND version = ?, and the
\* abort test on cursor.rowcount.
SetUpdate(i) ==
    /\ self[i].pc = "set_update"
    /\ UNCHANGED <<dirs, attr, files, clock, nextId, ops>>
    /\ LET s == self[i]
           hit == UpdateWhere(s.key, s.version)
       IN IF hit # {}
          THEN LET old == CHOOSE r \in hit : TRUE
                   new == [old EXCEPT !.version = next_version(s.version),
                                      !.store_time = s.now,
                                      !.expire_time = expire_time(s.now, s.expire),
                                      !.access_time = s.now,
                                      !.access_count = 0,
                                      !.tag = s.tag,
                                      !.size = s.staged.size,
                                      !.mode = s.staged.mode,
                                      !.filename = s.staged.filename,
                                      !.value = s.staged.value]
               IN /\ Cache' = (Cache \ {old}) \cup {new}
                  /\ Settings' = Settings_size_update(Settings, new, old)
                  /\ commits' = [commits EXCEPT ![s.key] = Append(@, s.data.id)]
                  /\ lost' = lost
                  /\ Goto(i, [s EXCEPT !.pc = "set_cull", !.committed = TRUE,
                                       !.row = new])
          ELSE /\ lost' = lost \cup {s.data.id}
               /\ UNCHANGED <<Cache, Settings, commits>>
               /\ Goto(i, [s EXCEPT !.pc = IF s.staged.filename # NULL
                                           THEN "set_abort" ELSE "return"])

\* Another Cache wrote the value before us so abort: remove the staged file.
SetAbort(i) ==
    /\ self[i].pc = "set_abort"
    /\ UNCHANGED <<dirs, attr, Cache, Settings, clock, commits, lost, nextId, ops>>
    /\ files' = _remove(files, self[i].staged.filename)
    /\ Goto(i, [self[i] EXCEPT !.pc = "return"])

\* A sweep that leaves out the comparison with now.
ExpiringRows(now) == {r \in Cache : r.expire_time # NULL}

\* Rows with expire_time IS NOT NULL AND expire_time < now.
ExpiredRows(now) == {r \in Cache : r.expire_time # NULL /\ r.expire_time < now}

\* Evict expired keys: SELECT ... ORDER BY expire_time LIMIT cull_limit.
SetCull(i) ==
    /\ self[i].pc = "set_cull"
    /\ UNCHANGED <<dirs, attr, Cache, Settings, files, clock, commits, lost, nextId, ops>>
    /\ LET s == [self[i] EXCEPT !.cull_limit = Settings.cull_limit]
           rows == Triples(Limit(OrderBy(ExpiredRows(s.now), "expire_time"),
                                 s.cull_limit))
       IN Goto(i, Loop(s, rows, "expired"))

\* Calculate total size (PRAGMA page_count, del self.size) and compare it
\* with size_limit.
SetTotal(i) ==
    /\ self[i].pc = "set_total"
    /\ UNCHANGED <<dirs, attr, Cache, Settings, files, clock, commits, lost, nextId, ops>>
    /\ Goto(i, [self[i] EXCEPT !.total_size = total_size,
                               !.pc = IF total_size < Settings.size_limit
                                      THEN "return" ELSE "set_evict"])

\* Evict keys by policy: the policy's 'set' query with the quota left.
SetEvict(i) ==
    /\ self[i].pc = "set_evict"
    /\ UNCHANGED <<dirs, attr, Cache, Settings, files, clock, commits, lost, nextId, ops>>
    /\ LET rows == Triples(Limit(OrderBy(Cache, PolicyColumn(Settings.eviction_policy)),
                                 self[i].cull_limit))
       IN Goto(i, Loop(self[i], rows, "policy"))

\* ----------------------------------------------------------------- _delete
\* The rows DELETE FROM Cache WHERE rowid = ? AND version = ? removes.
DeleteWhere(rowid, version) ==
    {r \in Cache : r.rowid = rowid /\ r.version = version}

\* Cache._delete, the row: DELETE for the first of the selected rows.
Delete(i) ==
    /\ self[i].pc = "delete"
    /\ UNCHANGED <<dirs, attr, files, clock, commits, lost, nextId, ops>>
    /\ LET s == self[i]
           t == Head(s.rows)
           hit == DeleteWhere(t.rowid, t.version)
           deleted == Cardinality(hit) = 1
           u == [s EXCEPT !.cursor = IF s.loop = "expire" THEN t.expire_time
                                     ELSE t.rowid,
                          !.cull_limit = IF deleted /\ s.loop = "expired"
                                         THEN @ - 1 ELSE @,
                          !.culled = IF deleted /\ s.loop \in {"expired", "policy"}
                                     THEN @ + 1 ELSE @,
                          !.removed = IF deleted /\ s.loop \in {"expire", "evict"}
                                      THEN @ + 1 ELSE @,
                          !.rowcount = Cardinality(hit),
                          !.wrong = \/ @
                                    \/ /\ deleted
                                       /\ ValueId(CHOOSE r \in hit : TRUE) # t.id,
                          !.victims = IF deleted /\ s.loop \in {"expired", "policy"}
                                      THEN Append(@, [row |-> CHOOSE r \in hit : TRUE,
                                                      loop |-> s.loop])
                                      ELSE @,
                          !.fixed = IF deleted /\ s.loop \in {"reserved", "check_files"}
                                    THEN @ \cup {s.loop} ELSE @]
       IN /\ Cache' = Cache \ hit
          /\ Settings' = IF deleted
                         THEN LET old == CHOOSE r \in hit : TRUE
                              IN Settings_size_delete(Settings_count_delete(Settings), old)
                         ELSE Settings
          /\ IF deleted /\ t.filename # NULL
             THEN Goto(i, [u EXCEPT !.pc = "unlink"])
             ELSE Goto(i, Advance(u))

\* Cache._delete, the file: remove the file of the row it deleted.
Unlink(i) ==
    /\ self[i].pc = "unlink"
    /\ UNCHANGED <<dirs, attr, Cache, Settings, clock, commits, lost, nextId, ops>>
    /\ files' = _remove(files, Head(self[i].rows).filename)
    /\ Goto(i, Advance(self[i]))

\* --------------------------------------------------------------------- get
\* Where get goes after a miss and after a fetched value: the statistics
\* statement if statistics is on, the policy's 'get' query if it has one.
PolicyPc ==
    IF Settings.eviction_policy = "least-recently-stored" THEN "return"
    ELSE "get_policy"

\* A get that returns the default without counting the miss.
MissUncounted(i) == "return"

MissPc(i) == IF attr[i].statistics # 0 THEN "get_miss" ELSE "return"

HitPc(i) == IF attr[i].statistics # 0 THEN "get_hit" ELSE PolicyPc

\* Disk.fetch opens a file for this row.
ReadsFile(row) ==
    \/ row.mode \in {MODE_BINARY, MODE_TEXT}
    \/ (row.mode = MODE_PICKLE /\ row.value = None)

\* A get that leaves out the test on store_time.
ReservationUnchecked(row) == FALSE

\* get's test on store_time: the row is a reservation.
IsReservation(row) == row.store_time = NULL

\* A get whose test on expire_time is the wrong way round.
ExpiredReversed(row, now) == row.expire_time # NULL /\ row.expire_time > now

\* get's test on expire_time.
IsExpired(row, now) == row.expire_time # NULL /\ row.expire_time < now

\* The key has no row in the table.
Absent(k) == ~\E r \in Cache : r.key = k

\* get is called, by its name (op "get") or as an indexed read (op
\* "getitem"); SELECT rowid, store_time, ... WHERE key = ? AND raw = ?, the
\* tests on the row, and Disk.fetch of an inline value.
Get(i, k, op) ==
    /\ Call(i)
    /\ UNCHANGED <<dirs, attr, Cache, Settings, files, commits, lost, nextId>>
    /\ LET row == RowOf(k)
           s == [Idle EXCEPT !.op = op, !.key = k, !.row = row,
                             !.absent = Absent(k), !.snap = Snap,
                             !.wrap = Nested(self[i].wrap)]
       IN IF row = NoRow \/ IsReservation(row)
          THEN /\ clock' = clock
               /\ Goto(i, [s EXCEPT !.pc = MissPc(i)])
          ELSE \E now \in Times :
                 /\ clock' = now
                 /\ IF IsExpired(row, now)
                    THEN Goto(i, [s EXCEPT !.pc = MissPc(i), !.now = now])
                    ELSE IF ReadsFile(row)
                    THEN Goto(i, [s EXCEPT !.pc = "get_fetch", !.now = now])
                    ELSE Goto(i, [s EXCEPT !.pc = HitPc(i), !.now = now,
                                    !.result = fetch(row.mode, row.filename,
                                                     row.value).data])

GetSelect(i, k) == Get(i, k, "get")

\* __getitem__(key)
GetItem(i, k) == Get(i, k, "getitem")

\* Disk.fetch of a value in a file; ENOENT is a miss.
GetFetch(i) ==
    /\ self[i].pc = "get_fetch"
    /\ UNCHANGED <<dirs, attr, Cache, Settings, files, clock, commits, lost, nextId, ops>>
    /\ LET s == self[i]
           got == fetch(s.row.mode, s.row.filename, s.row.value)
       IN IF got.ok
          THEN Goto(i, [s EXCEPT !.pc = HitPc(i), !.result = got.data,
                               !.io = "ok"])
          ELSE Goto(i, [s EXCEPT !.pc = MissPc(i), !.io = "ENOENT"])

\* Disk.fetch raises an IOError whose errno is not ENOENT: get raises it.
GetFetchError(i) ==
    /\ self[i].pc = "get_fetch"
    /\ UNCHANGED <<dirs, attr, Cache, Settings, files, clock, commits, lost, nextId, ops>>
    /\ Goto(i, [self[i] EXCEPT !.pc = "return", !.io = "EIO",
                               !.raised = "IOError"])

\* A miss statement that counts down.
cache_miss_down(S) == [S EXCEPT !.misses = @ - 1]

\* UPDATE Settings SET value = value + 1 WHERE key = "misses"
cache_miss(S) == [S EXCEPT !.misses = @ + 1]

\* UPDATE Settings SET value = value + 1 WHERE key = "hits"
cache_hit(S) == [S EXCEPT !.hits = @ + 1]

\* sql(cache_miss); return default
GetMiss(i) ==
    /\ self[i].pc = "get_miss"
    /\ UNCHANGED <<dirs, attr, Cache, files, clock, commits, lost, nextId, ops>>
    /\ Settings' = cache_miss(Settings)
    /\ Goto(i, [self[i] EXCEPT !.pc = "return", !.counted = "miss"])

\* sql(cache_hit)
GetHit(i) ==
    /\ self[i].pc = "get_hit"
    /\ UNCHANGED <<dirs, attr, Cache, files, clock, commits, lost, nextId, ops>>
    /\ Settings' = cache_hit(Settings)
    /\ Goto(i, [self[i] EXCEPT !.pc = PolicyPc, !.counted = "hit"])

\* The policy's 'get' query: UPDATE Cache SET ... WHERE rowid = ?
PolicyGet(row, policy, now) ==
    IF policy = "least-recently-used" THEN [row EXCEPT !.access_time = now]
    ELSE IF policy = "least-frequently-used"
    THEN [row EXCEPT !.access_count = @ + 1]
    ELSE row

GetPolicy(i) ==
    /\ self[i].pc = "get_policy"
    /\ UNCHANGED <<dirs, attr, files, commits, lost, nextId, ops>>
    /\ \E now \in IF Settings.eviction_policy = "least-recently-used"
                  THEN Times ELSE {clock} :
         LET hit == {r \in Cache : r.rowid = self[i].row.rowid}
         IN /\ clock' = now
            /\ IF hit = {}
               THEN UNCHANGED <<Cache, Settings>>
               ELSE LET old == CHOOSE r \in hit : TRUE
                        new == PolicyGet(old, Settings.eviction_policy, now)
                    IN /\ Cache' = (Cache \ {old}) \cup {new}
                       /\ Settings' = Settings_size_update(Settings, new, old)
    /\ Goto(i, [self[i] EXCEPT !.pc = "return"])

\* ------------------------------------------------------------------ delete
\* __delitem__ is called, as an indexed delete (op "delitem") or by delete
\* (op "delete"); SELECT rowid, version, filename; a missing key raises
\* KeyError, which delete ignores.
Del(i, k, op) ==
    /\ Call(i)
    /\ UNCHANGED <<dirs, attr, Cache, Settings, files, clock, commits, lost, nextId>>
    /\ LET row == RowOf(k)
           s == [Idle EXCEPT !.op = op, !.key = k, !.row = row,
                             !.absent = Absent(k)]
       IN IF row = NoRow
          THEN Goto(i, [s EXCEPT !.pc = "return",
                                 !.raised = IF op = "delitem" THEN "KeyError"
                                            ELSE "none"])
          ELSE Goto(i, Loop(s, <<Triple(row)>>, "delete"))

DeleteLookup(i, k) == Del(i, k, "delete")

\* __delitem__(key)
DelItem(i, k) == Del(i, k, "delitem")

\* ------------------------------------------------------------- maintenance
\* expire's query: ? < expire_time AND expire_time < ? ORDER BY expire_time
ExpireRows(cursor, now, chunk) ==
    Triples(Limit(OrderBy({r \in Cache : /\ r.expire_time # NULL
                                         /\ cursor < r.expire_time
                                         /\ r.expire_time < now},
                          "expire_time"), chunk))

\* expire is called: now = time.time(), and the first chunk.
ExpireCall(i) ==
    /\ Call(i)
    /\ UNCHANGED <<dirs, attr, Cache, Settings, files, commits, lost, nextId>>
    /\ \E now \in Times :
         LET s == [Idle EXCEPT !.op = "expire", !.now = now,
                               !.cull_limit = Settings.cull_limit,
                               !.snap = Snap]
         IN /\ clock' = now
            /\ Goto(i, Chunk(s, ExpireRows(0, now, s.cull_limit), "expire"))

\* expire's next chunk.
ExpireSelect(i) ==
    /\ self[i].pc = "expire_select"
    /\ UNCHANGED <<dirs, attr, Cache, Settings, files, clock, commits, lost, nextId, ops>>
    /\ LET s == self[i]
       IN Goto(i, Chunk(s, ExpireRows(s.cursor, s.now, s.cull_limit), "expire"))

\* An evict whose query finds rows for its first chunk only.
EvictRowsOnce(tag, cursor, chunk) ==
    IF cursor # 0 THEN <<>>
    ELSE Triples(Limit(OrderBy({r \in Cache : tag # NULL /\ r.tag = tag},
                               "rowid"), chunk))

\* evict's query: tag = ? AND rowid > ? ORDER BY rowid LIMIT ?
EvictRows(tag, cursor, chunk) ==
    Triples(Limit(OrderBy({r \in Cache : /\ tag # NULL
                                         /\ r.tag = tag
                                         /\ r.rowid > cursor},
                          "rowid"), chunk))

\* evict(tag) is called: the first chunk.
EvictCall(i, tag) ==
    /\ Call(i)
    /\ UNCHANGED <<dirs, attr, Cache, Settings, files, clock, commits, lost, nextId>>
    /\ LET s == [Idle EXCEPT !.op = "evict", !.tag = tag,
                             !.cull_limit = Settings.cull_limit,
                             !.snap = Snap]
       IN Goto(i, Chunk(s, EvictRows(tag, 0, s.cull_limit), "evict"))

\* evict's next chunk.
EvictSelect(i) ==
    /\ self[i].pc = "evict_select"
    /\ UNCHANGED <<dirs, attr, Cache, Settings, files, clock, commits, lost, nextId, ops>>
    /\ LET s == self[i]
       IN Goto(i, Chunk(s, EvictRows(s.tag, s.cursor, s.cull_limit), "evict"))

\* clear's query: rowid > ? ORDER BY rowid LIMIT ?
ClearRows(cursor, chunk) ==
    Triples(Limit(OrderBy({r \in Cache : r.rowid > cursor}, "rowid"), chunk))

\* clear is called: the first chunk.
ClearCall(i) ==
    /\ Call(i)
    /\ UNCHANGED <<dirs, attr, Cache, Settings, files, clock, commits, lost, nextId>>
    /\ LET s == [Idle EXCEPT !.op = "clear", !.cull_limit = Settings.cull_limit]
       IN Goto(i, Chunk(s, ClearRows(0, s.cull_limit), "clear"))

\* clear's next chunk.
ClearSelect(i) ==
    /\ self[i].pc = "clear_select"
    /\ UNCHANGED <<dirs, attr, Cache, Settings, files, clock, commits, lost, nextId, ops>>
    /\ LET s == self[i]
       IN Goto(i, Chunk(s, ClearRows(s.cursor, s.cull_limit), "clear"))

\* ------------------------------------------------------------------- check
\* check(fix) is called: PRAGMA integrity_check, VACUUM when fix is set, and
\* del self.count, which reads Settings.count.
CheckCall(i, fix) ==
    /\ Call(i)
    /\ UNCHANGED <<dirs, Cache, Settings, files, clock, commits, lost, nextId>>
    /\ attr' = [attr EXCEPT ![i].count = Settings.count]
    /\ Goto(i, [Idle EXCEPT !.op = "check", !.fix = fix, !.pc = "check_count",
                            !.read = Settings.count])

\* SELECT COUNT(key) FROM Cache, compared with Settings.count.
CheckCount(i) ==
    /\ self[i].pc = "check_count"
    /\ UNCHANGED <<dirs, attr, Cache, Settings, files, clock, commits, lost, nextId, ops>>
    /\ LET s == self[i]
           count == Cardinality(Cache)
       IN Goto(i, [s EXCEPT !.read = count,
                            !.pc = IF s.read # count /\ s.fix
                                   THEN "check_count_fix" ELSE "check_rows"])

\* self.count = count
CheckCountFix(i) ==
    /\ self[i].pc = "check_count_fix"
    /\ UNCHANGED <<dirs, Cache, files, clock, commits, lost, nextId, ops>>
    /\ Settings' = [Settings EXCEPT !.count = self[i].read]
    /\ attr' = [attr EXCEPT ![i].count = self[i].read]
    /\ Goto(i, [self[i] EXCEPT !.pc = "check_rows", !.fixed = @ \cup {"count"}])

\* A check that finds no uncommitted row.
UncommittedUnseen == {}

\* The rows SELECT ... FROM Cache WHERE store_time IS NULL reports.
Uncommitted == {r \in Cache : r.store_time = NULL}

\* Report uncommitted rows, and _delete each of them when fix is set.
CheckRows(i) ==
    /\ self[i].pc = "check_rows"
    /\ UNCHANGED <<dirs, attr, Cache, Settings, files, clock, commits, lost, nextId, ops>>
    /\ LET s == self[i]
           rows == Triples(OrderBy(Uncommitted, "rowid"))
       IN Goto(i, Loop(s, IF s.fix THEN rows ELSE <<>>, "reserved"))

\* check's query: rowid > ? AND filename IS NOT NULL ORDER BY rowid LIMIT ?
CheckFileRows(cursor, chunk) ==
    Triples(Limit(OrderBy({r \in Cache : r.rowid > cursor /\ r.filename # NULL},
                          "rowid"), chunk))

\* Check Cache.filename against file system: rowid = 0 and the first chunk
\* (from check_scan), or the next chunk.
CheckFiles(i) ==
    /\ self[i].pc \in {"check_scan", "check_files"}
    /\ UNCHANGED <<dirs, attr, Cache, Settings, files, clock, commits, lost, nextId, ops>>
    /\ LET s == [self[i] EXCEPT !.cursor = IF self[i].pc = "check_scan"
                                           THEN 0 ELSE @]
           rows == CheckFileRows(s.cursor, Settings.cull_limit)
       IN IF rows = <<>>
          THEN Goto(i, [s EXCEPT !.pc = "check_size"])
          ELSE Goto(i, Loop(s, rows, "check_files"))

\* The body of check's loop: filenames.add(full_path) and op.exists; a row
\* whose file is not found goes to _delete when fix is set.
CheckExists(i) ==
    /\ self[i].pc = "check_exists"
    /\ UNCHANGED <<dirs, attr, Cache, Settings, files, clock, commits, lost, nextId, ops>>
    /\ LET t == Head(self[i].rows)
           s == [self[i] EXCEPT !.filenames = @ \cup {t.filename},
                                !.cursor = t.rowid]
       IN IF FileNamed(t.filename) # {} \/ ~s.fix
          THEN Goto(i, Advance(s))
          ELSE Goto(i, [s EXCEPT !.pc = "delete"])

\* del self.size, which reads Settings.size.
CheckSize(i) ==
    /\ self[i].pc = "check_size"
    /\ UNCHANGED <<dirs, Cache, Settings, files, clock, commits, lost, nextId, ops>>
    /\ attr' = [attr EXCEPT ![i].size = Settings.size]
    /\ Goto(i, [self[i] EXCEPT !.pc = "check_sum", !.read = Settings.size])

\* SELECT COALESCE(SUM(size), 0) FROM Cache, compared with Settings.size.
CheckSum(i) ==
    /\ self[i].pc = "check_sum"
    /\ UNCHANGED <<dirs, attr, Cache, Settings, files, clock, commits, lost, nextId, ops>>
    /\ LET s == self[i]
           size == SumSize(Cache)
       IN Goto(i, [s EXCEPT !.read = size,
                            !.pc = IF s.read # size /\ s.fix
                                   THEN "check_size_fix" ELSE "check_walk"])

\* self.size = size
CheckSizeFix(i) ==
    /\ self[i].pc = "check_size_fix"
    /\ UNCHANGED <<dirs, Cache, files, clock, commits, lost, nextId, ops>>
    /\ Settings' = [Settings EXCEPT !.size = self[i].read]
    /\ attr' = [attr EXCEPT ![i].size = self[i].read]
    /\ Goto(i, [self[i] EXCEPT !.pc = "check_walk", !.fixed = @ \cup {"size"}])

\* The files of the tree that are not among `filenames` (the database files
\* are not among the value files of the model).
Unreferenced(fs, filenames) == {f \in fs : f.name \notin filenames}

\* Check file system against Cache.filename: the first os.walk, with
\* os.remove of every unreferenced file when fix is set.
CheckWalk(i) ==
    /\ self[i].pc = "check_walk"
    /\ UNCHANGED <<dirs, attr, Cache, Settings, clock, commits, lost, nextId, ops>>
    /\ files' = IF self[i].fix
                THEN files \ Unreferenced(files, self[i].filenames)
                ELSE files
    /\ Goto(i, [self[i] EXCEPT
                   !.pc = "check_dirs",
                   !.fixed = IF files' # files THEN @ \cup {"file"} ELSE @])

\* The directories the second os.walk finds with `not (dirs or files)`.  The
\* walk is top-down: a directory is listed when the walk enters it, before
\* the walk enters its subdirectories, and value files are in <hh>/<hh> only.
EmptyDirs(ds, fs) ==
    {d \in ds :
        /\ ~\E e \in ds : Len(e) = Len(d) + 1 /\ SubSeq(e, 1, Len(d)) = d
        /\ ~\E f \in fs : sub_dir(f.name) = d}

\* Check for empty directories: the second os.walk, with os.rmdir of every
\* empty directory when fix is set.
CheckDirs(i) ==
    /\ self[i].pc = "check_dirs"
    /\ UNCHANGED <<attr, Cache, Settings, files, clock, commits, lost, nextId, ops>>
    /\ dirs' = IF self[i].fix THEN dirs \ EmptyDirs(dirs, files) ELSE dirs
    /\ Goto(i, [self[i] EXCEPT
                   !.pc = "return",
                   !.fixed = IF dirs' # dirs THEN @ \cup {"dir"} ELSE @])

\* ------------------------------------------------------------------- stats
\* stats(enable, reset) is called: del self.hits, which reads Settings.hits.
StatsCall(i, enable, reset) ==
    /\ Call(i)
    /\ UNCHANGED <<dirs, Cache, Settings, files, clock, commits, lost, nextId>>
    /\ attr' = [attr EXCEPT ![i].hits = Settings.hits]
    /\ Goto(i, [Idle EXCEPT !.op = "stats", !.enable = enable, !.reset = reset,
                            !.pc = "stats_misses"])

\* del self.misses, which reads Settings.misses; result = (hits, misses).
StatsMisses(i) ==
    /\ self[i].pc = "stats_misses"
    /\ UNCHANGED <<dirs, Cache, Settings, files, clock, commits, lost, nextId, ops>>
    /\ attr' = [attr EXCEPT ![i].misses = Settings.misses]
    /\ Goto(i, [self[i] EXCEPT !.pair = <<attr[i].hits, Settings.misses>>,
                               !.pc = IF self[i].reset THEN "stats_reset_hits"
                                      ELSE "stats_enable"])

\* self.hits = 0
StatsResetHits(i) ==
    /\ self[i].pc = "stats_reset_hits"
    /\ UNCHANGED <<dirs, Cache, files, clock, commits, lost, nextId, ops>>
    /\ Settings' = [Settings EXCEPT !.hits = 0]
    /\ attr' = [attr EXCEPT ![i].hits = 0]
    /\ Goto(i, [self[i] EXCEPT !.pc = "stats_reset_misses"])

\* self.misses = 0
StatsResetMisses(i) ==
    /\ self[i].pc = "stats_reset_misses"
    /\ UNCHANGED <<dirs, Cache, files, clock, commits, lost, nextId, ops>>
    /\ Settings' = [Settings EXCEPT !.misses = 0]
    /\ attr' = [attr EXCEPT ![i].misses = 0]
    /\ Goto(i, [self[i] EXCEPT !.pc = "stats_enable"])

\* self.statistics = enable; return result
StatsEnable(i) ==
    /\ self[i].pc = "stats_enable"
    /\ UNCHANGED <<dirs, Cache, files, clock, commits, lost, nextId, ops>>
    /\ LET value == IF self[i].enable THEN 1 ELSE 0
       IN /\ Settings' = [Settings EXCEPT !.statistics = value]
          /\ attr' = [attr EXCEPT ![i].statistics = value]
    /\ Goto(i, [self[i] EXCEPT !.pc = "return"])

\* ---------------------------------------------------------------- __init__
\* DEFAULT_SETTINGS, with the limits scaled; the store-level settings
\* (sqlite_*) and large_value_threshold are not among the modelled rows.
DEFAULT_SETTINGS == Config("least-recently-stored", 2 * MaxLen + 2, 2, 0)

\* The order in which the items of DEFAULT_SETTINGS come.
SettingOrder == <<"statistics", "eviction_policy", "size_limit", "cull_limit",
                  "count", "size", "hits", "misses">>

\* dict.update: the items of g over those of f.
Update(f, g) ==
    [k \in DOMAIN f \cup DOMAIN g |-> IF k \in DOMAIN g THEN g[k] ELSE f[k]]

\* The keys of a dict in insertion order: those of DEFAULT_SETTINGS, then
\* the others.
RECURSIVE Others(_)
Others(K) ==
    IF K = {} THEN <<>>
    ELSE LET k == CHOOSE k \in K : TRUE IN <<k>> \o Others(K \ {k})

Items(d) == SettingOrder \o Others(DOMAIN d \ DOMAIN DEFAULT_SETTINGS)

\* CacheMeta: the names that are CachedAttr descriptors of the class.
CachedAttr(key) == key \in DOMAIN DEFAULT_SETTINGS

\* Cache(directory, **settings) is called in process i: SELECT key, value
\* FROM Settings, and temp = defaults, updated with the table, updated with
\* the keyword arguments.
OpenCall(i, settings) ==
    /\ Call(i)
    /\ UNCHANGED <<dirs, Cache, Settings, files, clock, commits, lost, nextId>>
    /\ attr' = [attr EXCEPT ![i] = NoSettings]
    /\ LET temp == Update(Update(DEFAULT_SETTINGS, Settings), settings)
       IN Goto(i, [Idle EXCEPT !.op = "open", !.pc = "open_set",
                               !.settings = settings,
                               !.temp = temp, !.todo = Items(temp)])

\* setattr(self, key, value) for the next item of temp: a CachedAttr writes
\* the row of Settings (INSERT OR REPLACE) and caches the value, any other
\* name becomes an attribute of the object.
OpenSet(i) ==
    /\ self[i].pc = "open_set"
    /\ UNCHANGED <<dirs, Cache, files, clock, commits, lost, nextId, ops>>
    /\ LET s == self[i]
           key == Head(s.todo)
           item == [k \in {key} |-> s.temp[key]]
       IN /\ Settings' = IF CachedAttr(key) THEN Update(Settings, item)
                         ELSE Settings
          /\ attr' = [attr EXCEPT ![i] = Update(@, item)]
          /\ Goto(i, [s EXCEPT !.todo = Tail(@),
                               !.pc = IF Tail(s.todo) = <<>> THEN "return"
                                      ELSE "open_set"])

\* ---------------------------------------------------------- specifications
\* Instances that share the directory, interleaved statement by statement.
Next ==
    \/ \E i \in Insts, k \in Keys, in \in SetInputs : SetLookup(i, k, in)
    \/ \E i \in Insts : SetInsert(i)
    \/ \E i \in Insts : SetRemove(i)
    \/ \E i \in Insts : SetStore(i)
    \/ \E i \in Insts : SetUpdate(i)
    \/ \E i \in Insts : SetAbort(i)
    \/ \E i \in Insts : SetCull(i)
    \/ \E i \in Insts : SetTotal(i)
    \/ \E i \in Insts : SetEvict(i)
    \/ \E i \in Insts : Delete(i)
    \/ \E i \in Insts : Unlink(i)
    \/ \E i \in Insts, k \in Keys : GetSelect(i, k)
    \/ \E i \in Insts : GetFetch(i)
    \/ \E i \in Insts : GetMiss(i)
    \/ \E i \in Insts : GetHit(i)
    \/ \E i \in Insts : GetPolicy(i)
    \/ \E i \in Insts, k \in Keys : DeleteLookup(i, k)
    \/ \E i \in Insts : ExpireCall(i)
    \/ \E i \in Insts : ExpireSelect(i)
    \/ \E i \in Insts : EvictCall(i, 7)
    \/ \E i \in Insts : EvictSelect(i)
    \/ \E i \in Insts : ClearCall(i)
    \/ \E i \in Insts : ClearSelect(i)

Spec == Init /\ [][Next]_vars

\* Instances that race on one key with set, get and delete.
NoExpiry == {in \in SetInputs : in.expire = NULL}

NextRace ==
    \/ \E i \in Insts, in \in NoExpiry : SetLookup(i, "a", in)
    \/ \E i \in Insts : SetInsert(i)
    \/ \E i \in Insts : SetRemove(i)
    \/ \E i \in Insts : SetStore(i)
    \/ \E i \in Insts : SetUpdate(i)
    \/ \E i \in Insts : SetAbort(i)
    \/ \E i \in Insts : SetCull(i)
    \/ \E i \in Insts : SetTotal(i)
    \/ \E i \in Insts : SetEvict(i)
    \/ \E i \in Insts : Delete(i)
    \/ \E i \in Insts : Unlink(i)
    \/ \E i \in Insts : GetSelect(i, "a")
    \/ \E i \in Insts : GetFetch(i)
    \/ \E i \in Insts : GetMiss(i)
    \/ \E i \in Insts : GetHit(i)
    \/ \E i \in Insts : GetPolicy(i)
    \/ \E i \in Insts : DeleteLookup(i, "a")

SpecRace == InitRace /\ [][NextRace]_vars

\* One instance with no concurrent activity.  SetAbort is not among its
\* steps: the versioned update of a lone instance always finds the row it
\* looked up or inserted (NeverAborts).
NextSolo ==
    \/ \E k \in Keys, in \in SetInputs : SetLookup(1, k, in)
    \/ SetInsert(1)
    \/ SetRemove(1)
    \/ SetStore(1)
    \/ SetUpdate(1)
    \/ SetCull(1)
    \/ SetTotal(1)
    \/ SetEvict(1)
    \/ Delete(1)
    \/ Unlink(1)
    \/ \E k \in Keys : GetSelect(1, k)
    \/ GetFetch(1)
    \/ GetMiss(1)
    \/ GetHit(1)
    \/ GetPolicy(1)
    \/ \E k \in Keys : DeleteLookup(1, k)
    \/ ExpireCall(1)
    \/ ExpireSelect(1)
    \/ EvictCall(1, 7)
    \/ EvictSelect(1)
    \/ ClearCall(1)
    \/ ClearSelect(1)

SpecSolo == InitSolo /\ [][NextSolo]_vars

\* A cache that processes left behind when they were killed inside an
\* operation, with no operation in progress, and check called on it.  Each
\* key has no row, or the reservation row of a set killed before its update,
\* or a committed row with its value inline or in a file, or a row whose
\* file a set removed before it was killed.  The tree may hold the file a
\* set staged before it was killed and directories whose files were deleted.
\* The counters may be off by what a constructor wrote back over a trigger.
RowStates == {"absent", "reserved", "inline", "file", "dangling"}

\* The row of key k in the given state; it has the rowid and file name n.
DamagedRow(k, n, state) ==
    IF state = "reserved" THEN [NoRow EXCEPT !.rowid = n, !.key = k]
    ELSE IF state = "inline"
    THEN [NoRow EXCEPT !.rowid = n, !.key = k, !.version = 1, !.store_time = 0,
                       !.access_time = 0, !.size = MaxLen - 1, !.mode = MODE_RAW,
                       !.value = [len |-> MaxLen - 1, id |-> n]]
    ELSE [NoRow EXCEPT !.rowid = n, !.key = k, !.version = 1, !.store_time = 0,
                       !.access_time = 0, !.size = MaxLen, !.mode = MODE_BINARY,
                       !.filename = n]

FileOf(n) == [name |-> n, data |-> [len |-> MaxLen, id |-> n]]

InitCheck ==
    \E sa \in RowStates, sb \in RowStates, orphans \in SUBSET {2, 5},
       empty \in SUBSET {<<0>>, <<0, 0>>, <<0, 1>>}, dc \in {0, 1}, ds \in {0, 1},
       c \in {1, 2} :
       LET rows == {DamagedRow("a", 1, sa) : x \in {sa} \ {"absent"}}
                   \cup {DamagedRow("b", 3, sb) : x \in {sb} \ {"absent"}}
           named == {r.filename : r \in {q \in rows : q.filename # NULL}}
           kept == {1 : x \in {sa} \cap {"file"}} \cup {3 : x \in {sb} \cap {"file"}}
           cfg == Config("least-recently-stored", 2 * MaxLen + 2, c, 1)
       IN /\ \A d \in empty : Len(d) = 2 => <<d[1]>> \in empty
          /\ Cache = rows
          /\ files = {FileOf(n) : n \in kept \cup orphans}
          /\ dirs = UNION {makedirs({}, sub_dir(n)) : n \in named \cup orphans}
                    \cup empty
          /\ Settings = [cfg EXCEPT !.count = Cardinality(rows) + dc,
                                    !.size = SumSize(rows) + ds]
          /\ attr = [i \in Insts |-> cfg]
          /\ clock = 0
          /\ self = [i \in Insts |-> Idle]
          /\ last = [i \in Insts |-> NoOp]
          /\ prev = [i \in Insts |-> Before(NoOp)]
          /\ commits = [k \in Keys |-> <<>>]
          /\ lost = {}
          /\ seen = [i \in Insts |-> [k \in Keys |-> 0]]
          /\ nextId = 6
          /\ ops = MaxCheckOps

NextCheck ==
    \/ \E fix \in BOOLEAN : CheckCall(1, fix)
    \/ CheckCount(1)
    \/ CheckCountFix(1)
    \/ CheckRows(1)
    \/ CheckFiles(1)
    \/ CheckExists(1)
    \/ CheckSize(1)
    \/ CheckSum(1)
    \/ CheckSizeFix(1)
    \/ CheckWalk(1)
    \/ CheckDirs(1)
    \/ Delete(1)
    \/ Unlink(1)

SpecCheck == InitCheck /\ [][NextCheck]_vars

\* Instances that read, write and delete one key, by name and indexed, with
\* and without statistics; a file that is opened may fail to be read.
IndexConfigs ==
    {Config("least-recently-used", 2 * MaxLen + 2, 1, 1),
     Config("least-recently-stored", 2 * MaxLen + 2, 1, 0)}

InitIndex == InitWith(IndexConfigs, MaxIndexOps)

NextIndex ==
    \/ \E i \in Insts, in \in SetInputs : SetLookup(i, "a", in)
    \/ \E i \in Insts : SetInsert(i)
    \/ \E i \in Insts : SetRemove(i)
    \/ \E i \in Insts : SetStore(i)
    \/ \E i \in Insts : SetUpdate(i)
    \/ \E i \in Insts : SetAbort(i)
    \/ \E i \in Insts : SetCull(i)
    \/ \E i \in Insts : SetTotal(i)
    \/ \E i \in Insts : Delete(i)
    \/ \E i \in Insts : Unlink(i)
    \/ \E i \in Insts : GetSelect(i, "a")
    \/ \E i \in Insts : GetItem(i, "a")
    \/ \E i \in Insts : GetFetch(i)
    \/ \E i \in Insts : GetFetchError(i)
    \/ \E i \in Insts : GetMiss(i)
    \/ \E i \in Insts : GetHit(i)
    \/ \E i \in Insts : GetPolicy(i)
    \/ \E i \in Insts : DeleteLookup(i, "a")
    \/ \E i \in Insts : DelItem(i, "a")

SpecIndex == InitIndex /\ [][NextIndex]_vars

\* Instances with statistics enabled that use every operation on one key,
\* stats among them.
StatsConfigs == {Config("least-recently-used", 2 * MaxLen + 2, 1, 1)}

InitStats == InitWith(StatsConfigs, MaxStatsOps)

NextStats ==
    \/ \E i \in Insts, in \in SetInputs : SetLookup(i, "a", in)
    \/ \E i \in Insts : SetInsert(i)
    \/ \E i \in Insts : SetRemove(i)
    \/ \E i \in Insts : SetStore(i)
    \/ \E i \in Insts : SetUpdate(i)
    \/ \E i \in Insts : SetAbort(i)
    \/ \E i \in Insts : SetCull(i)
    \/ \E i \in Insts : SetTotal(i)
    \/ \E i \in Insts : Delete(i)
    \/ \E i \in Insts : Unlink(i)
    \/ \E i \in Insts : GetSelect(i, "a")
    \/ \E i \in Insts : GetFetch(i)
    \/ \E i \in Insts : GetMiss(i)
    \/ \E i \in Insts : GetHit(i)
    \/ \E i \in Insts : GetPolicy(i)
    \/ \E i \in Insts : DeleteLookup(i, "a")
    \/ \E i \in Insts : ExpireCall(i)
    \/ \E i \in Insts : ExpireSelect(i)
    \/ \E i \in Insts : EvictCall(i, 7)
    \/ \E i \in Insts : EvictSelect(i)
    \/ \E i \in Insts : ClearCall(i)
    \/ \E i \in Insts : ClearSelect(i)
    \/ \E i \in Insts : CheckCall(i, TRUE)
    \/ \E i \in Insts : CheckCount(i)
    \/ \E i \in Insts : CheckCountFix(i)
    \/ \E i \in Insts : CheckRows(i)
    \/ \E i \in Insts : CheckFiles(i)
    \/ \E i \in Insts : CheckExists(i)
    \/ \E i \in Insts : CheckSize(i)
    \/ \E i \in Insts : CheckSum(i)
    \/ \E i \in Insts : CheckSizeFix(i)
    \/ \E i \in Insts : CheckWalk(i)
    \/ \E i \in Insts : CheckDirs(i)
    \/ \E i \in Insts, enable \in BOOLEAN, reset \in BOOLEAN :
          StatsCall(i, enable, reset)
    \/ \E i \in Insts : StatsMisses(i)
    \/ \E i \in Insts : StatsResetHits(i)
    \/ \E i \in Insts : StatsResetMisses(i)
    \/ \E i \in Insts : StatsEnable(i)

SpecStats == InitStats /\ [][NextStats]_vars

\* Constructors called on a fresh directory, one after or during another,
\* with no keyword argument, with a recognized one, and with one that is not
\* a recognized setting.
OpenInputs ==
    {NoSettings, [cull_limit |-> 1], [unknown |-> 5], [unknown |-> 6]}

InitOpen ==
    /\ Cache = {}
    /\ Settings = NoSettings
    /\ files = {}
    /\ dirs = {}
    /\ attr = [i \in Insts |-> NoSettings]
    /\ clock = 0
    /\ self = [i \in Insts |-> Idle]
    /\ last = [i \in Insts |-> NoOp]
    /\ prev = [i \in Insts |-> Before(NoOp)]
    /\ commits = [k \in Keys |-> <<>>]
    /\ lost = {}
    /\ seen = [i \in Insts |-> [k \in Keys |-> 0]]
    /\ nextId = 1
    /\ ops = MaxOpens

NextOpen ==
    \/ \E i \in Insts, settings \in OpenInputs : OpenCall(i, settings)
    \/ \E i \in Insts : OpenSet(i)

SpecOpen == InitOpen /\ [][NextOpen]_vars

\* One instance with no concurrent activity and no size pressure that
\* writes keys and calls expire and evict.  The instance runs on: a method
\* that was called executes its next statement (weak fairness).
SweepConfigs ==
    {Config("least-recently-stored", 2 * MaxLen + 2, c, 1) : c \in {1, 2}}

InitSweep == InitWith(SweepConfigs, MaxSweepOps)

NextSweep ==
    \/ \E k \in Keys, in \in SetInputs : SetLookup(1, k, in)
    \/ SetInsert(1)
    \/ SetRemove(1)
    \/ SetStore(1)
    \/ SetUpdate(1)
    \/ SetCull(1)
    \/ SetTotal(1)
    \/ Delete(1)
    \/ Unlink(1)
    \/ ExpireCall(1)
    \/ ExpireSelect(1)
    \/ EvictCall(1, 7)
    \/ EvictSelect(1)

SpecSweep == InitSweep /\ [][NextSweep]_vars /\ WF_vars(NextSweep)

\* ------------------------------------------------------- stampede barrier
\* random.random(): a float of [0.0, 1.0).  Draw 0 is 0.0, draw u > 0 is
\* e^(u - MaxDraw); the largest stands for the draws next to 1.0.
random == 0..MaxDraw

\* math.log raises ValueError (math domain error) at 0.0.
DomainError(u) == u = 0

\* math.log(u)
log(u) == u - MaxDraw

\* (-delta * math.log(random.random())) < ttl
Early(delta, u, ttl) == (-delta) * log(u) < ttl

\* The wrapper is called: key = (args, kwargs).
WrapCall(i) ==
    /\ self[i].pc = "idle"
    /\ self[i].wrap.pc = "none"
    /\ ops > 0
    /\ ops' = ops - 1
    /\ UNCHANGED <<Cache, Settings, files, dirs, attr, clock, last, prev,
                   commits, lost, seen, nextId>>
    /\ self' = [self EXCEPT ![i].wrap =
           [NoWrap EXCEPT !.pc = "lookup", !.expire = self[i].wrap.expire]]

\* cache[key]
WrapLookup(i) ==
    /\ self[i].wrap.pc = "lookup"
    /\ GetItem(i, "a")

\* result, delta, expire_time = cache[key]; now = time.time();
\* ttl = expire_time - now; the draw and the test; except KeyError: pass.
WrapDecide(i) ==
    /\ self[i].pc = "idle"
    /\ self[i].wrap.pc = "got"
    /\ UNCHANGED <<Cache, Settings, files, dirs, attr, last, prev, commits,
                   lost, seen, nextId, ops>>
    /\ LET w == self[i].wrap
       IN IF last[i].raised = "KeyError"
          THEN /\ clock' = clock
               /\ self' = [self EXCEPT ![i].wrap = [w EXCEPT !.pc = "recompute"]]
          ELSE \E now \in Times, u \in random :
                 LET e == last[i].result.tuple
                     ttl == e[3] - now
                     v == [w EXCEPT !.entry = e, !.now = now, !.ttl = ttl,
                                    !.draw = u]
                 IN /\ clock' = now
                    /\ self' = [self EXCEPT ![i].wrap =
                           IF DomainError(u)
                           THEN [v EXCEPT !.pc = "none", !.outcome = "ValueError"]
                           ELSE IF Early(e[2], u, ttl)
                           THEN [v EXCEPT !.pc = "none", !.outcome = "cached",
                                          !.returned = e[1]]
                           ELSE [v EXCEPT !.pc = "recompute"]]

\* now = time.time(); result = func(*args, **kwargs): the function is called.
WrapNow(i) ==
    /\ self[i].pc = "idle"
    /\ self[i].wrap.pc = "recompute"
    /\ UNCHANGED <<Cache, Settings, files, dirs, attr, last, prev, commits,
                   lost, seen, nextId, ops>>
    /\ \E now \in Times :
         /\ clock' = now
         /\ self' = [self EXCEPT ![i].wrap = [@ EXCEPT !.pc = "func",
                                                       !.now = now,
                                                       !.calls = @ + 1]]

\* The function returns; delta = time.time() - now; expire_time = now + expire
\* (a TypeError when the barrier was made without expire).
WrapFunc(i) ==
    /\ self[i].pc = "idle"
    /\ self[i].wrap.pc = "func"
    /\ UNCHANGED <<Cache, Settings, files, dirs, attr, last, prev, commits,
                   lost, seen, ops>>
    /\ nextId' = nextId + 1
    /\ \E later \in Times :
         LET w == self[i].wrap
             v == [w EXCEPT !.result = nextId, !.delta = later - w.now]
         IN /\ clock' = later
            /\ self' = [self EXCEPT ![i].wrap =
                   IF w.expire = NULL
                   THEN [v EXCEPT !.pc = "none", !.outcome = "TypeError"]
                   ELSE [v EXCEPT !.pc = "set",
                                  !.expire_time = w.now + w.expire,
                                  !.tuple = <<nextId, later - w.now,
                                              w.now + w.expire>>]]

\* cache.set(key, (result, delta, expire_time), expire=expire)
WrapSet(i) ==
    /\ self[i].wrap.pc = "set"
    /\ SetLookup(i, "a", [len |-> MaxLen - 1, expire |-> self[i].wrap.expire,
                          tag |-> NULL, tuple |-> self[i].wrap.tuple])

\* return result
WrapReturn(i) ==
    /\ self[i].pc = "idle"
    /\ self[i].wrap.pc = "stored"
    /\ UNCHANGED <<Cache, Settings, files, dirs, attr, clock, last, prev,
                   commits, lost, seen, nextId, ops>>
    /\ self' = [self EXCEPT ![i].wrap = [@ EXCEPT !.pc = "none",
                                                  !.outcome = "fresh",
                                                  !.returned = self[i].wrap.result]]

\* Two processes call a function wrapped by a barrier on their Cache of the
\* one directory, opened with the default settings; the barrier was made
\* with a TTL, or without one.
Expires == {NULL, 1, 2}

InitStampede ==
    /\ Cache = {}
    /\ Settings = DEFAULT_SETTINGS
    /\ files = {}
    /\ dirs = {}
    /\ attr = [i \in Insts |-> Settings]
    /\ clock = 0
    /\ \E expire \in Expires :
         self = [i \in Insts |-> [Idle EXCEPT !.wrap.expire = expire]]
    /\ last = [i \in Insts |-> NoOp]
    /\ prev = [i \in Insts |-> Before(NoOp)]
    /\ commits = [k \in Keys |-> <<>>]
    /\ lost = {}
    /\ seen = [i \in Insts |-> [k \in Keys |-> 0]]
    /\ nextId = 1
    /\ ops = MaxWrapCalls

NextStampede ==
    \/ \E i \in Insts : WrapCall(i)
    \/ \E i \in Insts : WrapLookup(i)
    \/ \E i \in Insts : WrapDecide(i)
    \/ \E i \in Insts : WrapNow(i)
    \/ \E i \in Insts : WrapFunc(i)
    \/ \E i \in Insts : WrapSet(i)
    \/ \E i \in Insts : SetInsert(i)
    \/ \E i \in Insts : SetStore(i)
    \/ \E i \in Insts : SetUpdate(i)
    \/ \E i \in Insts : SetCull(i)
    \/ \E i \in Insts : SetTotal(i)
    \/ \E i \in Insts : WrapReturn(i)

SpecStampede == InitStampede /\ [][NextStampede]_vars

\* One instance sets values of every kind on one key: integers within and
\* beyond the native range, floats, text with and without characters of
\* more than one byte, bytes, file-like objects handed over with read=True,
\* and objects that are pickled; lengths lie on both sides of the threshold.
InitCodec ==
    InitWith({Config("least-recently-stored", 2 * MaxLen + 4, 2, 0)},
             MaxCodecOps)

NextCodec ==
    \/ \E in \in
           {[type |-> "int", len |-> n, wide |-> 0, big |-> b, read |-> FALSE,
             expire |-> NULL, tag |-> NULL] : n \in 0..MaxLen + 1, b \in BOOLEAN}
           \cup
           {[type |-> "float", len |-> MaxLen, wide |-> 0, big |-> FALSE,
             read |-> FALSE, expire |-> NULL, tag |-> NULL]}
           \cup
           {[type |-> "text", len |-> n, wide |-> w, big |-> FALSE, read |-> r,
             expire |-> NULL, tag |-> NULL] :
               n \in 0..MaxLen + 1, w \in {0, 1}, r \in BOOLEAN}
           \cup
           {[type |-> "bytes", len |-> n, wide |-> 0, big |-> FALSE, read |-> r,
             expire |-> NULL, tag |-> NULL] : n \in 0..MaxLen + 1, r \in BOOLEAN}
           \cup
           {[type |-> "file", len |-> n, wide |-> 0, big |-> FALSE, read |-> TRUE,
             expire |-> NULL, tag |-> NULL] : n \in 0..MaxLen + 1}
           \cup
           {[type |-> "object", len |-> n, wide |-> 0, big |-> FALSE, read |-> FALSE,
             expire |-> NULL, tag |-> NULL] : n \in 0..MaxLen + 1} :
            SetLookup(1, "a", in)
    \/ SetInsert(1)
    \/ SetRemove(1)
    \/ SetStore(1)
    \/ SetUpdate(1)
    \/ SetCull(1)
    \/ SetTotal(1)

SpecCodec == InitCodec /\ [][NextCodec]_vars

\* One instance sets keys on a cache that holds two entries stored at time
\* 0 by sets that have returned, each with an expiry time or none; the
\* settings range over no cull quota and some, and over size pressure on
\* every write, after some writes, and none.
OldRow(k, n, e) ==
    [NoRow EXCEPT !.rowid = n, !.key = k, !.version = 1, !.store_time = 0,
                  !.expire_time = e, !.access_time = 0, !.size = MaxLen - 1,
                  !.mode = MODE_RAW, !.value = [len |-> MaxLen - 1, id |-> n]]

InitCull ==
    /\ \E e \in {NULL, 0, 1}, f \in {NULL, 0, 1} :
          Cache = {OldRow("c", 1, e), OldRow("d", 2, f)}
    /\ \E c \in {Config("least-recently-stored", l, q, 0) :
                   l \in {1, 2 * MaxLen, 2 * MaxLen + 4}, q \in {0, 1, 2}} :
          /\ Settings = [c EXCEPT !.count = 2, !.size = 2 * (MaxLen - 1)]
          /\ attr = [i \in Insts |-> c]
    /\ files = {}
    /\ dirs = {}
    /\ clock = 0
    /\ self = [i \in Insts |-> Idle]
    /\ last = [i \in Insts |-> NoOp]
    /\ prev = [i \in Insts |-> Before(NoOp)]
    /\ commits = [k \in Keys |-> <<>>]
    /\ lost = {}
    /\ seen = [i \in Insts |-> [k \in Keys |-> 0]]
    /\ nextId = 3
    /\ ops = MaxCullOps

NextCull ==
    \/ \E k \in Keys, in \in SetInputs : SetLookup(1, k, in)
    \/ SetInsert(1)
    \/ SetRemove(1)
    \/ SetStore(1)
    \/ SetUpdate(1)
    \/ SetCull(1)
    \/ SetTotal(1)
    \/ SetEvict(1)
    \/ Delete(1)
    \/ Unlink(1)

SpecCull == InitCull /\ [][NextCull]_vars

\* One instance reads and writes two keys of a cache that holds both,
\* stored at time 0 and never read, under each eviction policy, with size
\* pressure on every write and with none.
InitPolicy ==
    /\ Cache = {OldRow("a", 1, NULL), OldRow("b", 2, NULL)}
    /\ \E c \in {Config(p, l, q, 0) :
                   p \in Policies, l \in {1, 2 * MaxLen + 4}, q \in {1, 2}} :
          /\ Settings = [c EXCEPT !.count = 2, !.size = 2 * (MaxLen - 1)]
          /\ attr = [i \in Insts |-> c]
    /\ files = {}
    /\ dirs = {}
    /\ clock = 0
    /\ self = [i \in Insts |-> Idle]
    /\ last = [i \in Insts |-> NoOp]
    /\ prev = [i \in Insts |-> Before(NoOp)]
    /\ commits = [k \in Keys |-> IF k = "a" THEN <<1>> ELSE <<2>>]
    /\ lost = {}
    /\ seen = [i \in Insts |-> [k \in Keys |-> 0]]
    /\ nextId = 3
    /\ ops = MaxPolicyOps

NextPolicy ==
    \/ \E k \in Keys, in \in SetInputs : SetLookup(1, k, in)
    \/ SetInsert(1)
    \/ SetRemove(1)
    \/ SetStore(1)
    \/ SetUpdate(1)
    \/ SetCull(1)
    \/ SetTotal(1)
    \/ SetEvict(1)
    \/ Delete(1)
    \/ Unlink(1)
    \/ \E k \in Keys : GetSelect(1, k)
    \/ GetFetch(1)
    \/ GetPolicy(1)

SpecPolicy == InitPolicy /\ [][NextPolicy]_vars

\* A directory that instance 2 has open and uses, with statistics on, and
\* the constructor called on it in process 1, with no keyword argument or
\* with one that overrides a setting, while instance 2 reads, writes and
\* deletes a key.
InitReopen ==
    InitWith({Config("least-recently-stored", 2 * MaxLen + 2, 2, 1)},
             MaxReopenOps)

NextReopen ==
    \/ \E settings \in {NoSettings, [cull_limit |-> 1]} : OpenCall(1, settings)
    \/ OpenSet(1)
    \/ \E in \in SetInputs : SetLookup(2, "a", in)
    \/ SetInsert(2)
    \/ SetRemove(2)
    \/ SetStore(2)
    \/ SetUpdate(2)
    \/ SetCull(2)
    \/ SetTotal(2)
    \/ GetSelect(2, "a")
    \/ GetFetch(2)
    \/ GetMiss(2)
    \/ GetHit(2)
    \/ DeleteLookup(2, "a")
    \/ Delete(2)
    \/ Unlink(2)

SpecReopen == InitReopen /\ [][NextReopen]_vars

NeverAborts == \A i \in Insts : self[i].pc # "set_abort"

\* ------------------------------------------------------------------ claims
Committed(R) == {r \in R : ~IsReservation(r)}

\* C1 as stated: Settings.count, the value len() returns, equals the number
\* of Cache rows whose store_time is not null; reservation rows are not
\* counted.
C1_CountIsCommittedRows == Settings.count = Cardinality(Committed(Cache))

\* C1 as amended: Settings.count equals the number of all Cache rows, the
\* reservation rows included.
C1_CountIsAllRows == Settings.count = Cardinality(Cache)

\* A committed row and a reservation row are in the table together.
C1_Witness ==
    /\ \E r \in Cache : IsReservation(r)
    /\ \E r \in Cache : ~IsReservation(r)
    /\ Settings.count = 2

\* C2: Settings.size equals the sum of the size column over all Cache rows,
\* in every state any interleaving of the operations reaches.
C2_SizeIsSumOfRows == Settings.size = SumSize(Cache)

\* A row was overwritten by a second set and the table holds bytes.
C2_Witness ==
    /\ \E r \in Cache : r.version = 2 /\ r.size > 0
    /\ Settings.size > 0

\* C3: on a lone instance, set(K, V) with no expiry immediately followed by
\* get(K) returns V, whatever the size_limit, cull_limit and eviction policy.
C3_RoundTrip ==
    (/\ self[1].pc = "idle"
     /\ last[1].op = "get"
     /\ prev[1].op = "set"
     /\ prev[1].key = last[1].key
     /\ prev[1].expire = NULL)
    => last[1].result = prev[1].data

\* C4, the values: a value a get returns is the value of a set whose
\* versioned update affected a row, never that of a set whose update
\* affected none, and a committed row holds the latest commit of its key.
C4_Values ==
    /\ \A i \in Insts :
         (last[i].op = "get" /\ last[i].result # ENOVAL) =>
            /\ CommitIndex(last[i].key, last[i].result.id) > 0
            /\ last[i].result.id \notin lost
    /\ \A i \in Insts :
         (self[i].op = "get" /\ self[i].result # ENOVAL) =>
            /\ CommitIndex(self[i].key, self[i].result.id) > 0
            /\ self[i].result.id \notin lost
    /\ \A r \in Committed(Cache) :
         /\ commits[r.key] # <<>>
         /\ ValueId(r) = commits[r.key][Len(commits[r.key])]

\* C4, the order: the values the gets of an instance return follow the
\* commit order, and a successful set raises the row's version by one.
C4_Order ==
    /\ \A i \in Insts, k \in Keys : seen'[i][k] >= seen[i][k]
    /\ \A k \in Keys :
         commits'[k] # commits[k] =>
            \E r \in Cache, q \in Cache' :
               /\ r.key = k
               /\ q.key = k
               /\ q.rowid = r.rowid
               /\ q.version = r.version + 1
               /\ ValueId(q) = commits'[k][Len(commits'[k])]

\* C4: for a key written concurrently by several instances, every value a
\* get returns is a committed version, gets observe the committed versions
\* in commit order, each successful set raises the version by exactly one,
\* and the value of a set that lost the race is never observed.
C4_CommittedVersions == [](C4_Values) /\ [][C4_Order]_vars

\* A get returned the second commit of the key after another set's update
\* affected no row.
C4_Witness ==
    \E i \in Insts :
       /\ last[i].op = "get"
       /\ last[i].result # ENOVAL
       /\ CommitIndex("a", last[i].result.id) = 2
       /\ lost # {}

\* C5, the rows: the update that affects no row and the abort that follows
\* it change no row, and no step of a set before its update changes a
\* committed row.
C5_Rows ==
    \A i \in Insts :
       (self[i].op = "set" /\ ~self[i].committed /\ self'[i] # self[i]) =>
          /\ (lost' # lost \/ self[i].pc = "set_abort") => Cache' = Cache
          /\ ~self'[i].committed => Committed(Cache') = Committed(Cache)

\* C5, the file: the set that lost has returned and the file it staged is
\* not on disk.
C5_Files ==
    \A i \in Insts :
       (last[i].op = "set" /\ ~last[i].committed) =>
          /\ last[i].data.id \in lost
          /\ last[i].staged # NULL => FileNamed(last[i].staged) = {}

\* C5: the set whose versioned update affects no row returns without
\* raising, the file it staged is gone when it has returned, and the row
\* the winner committed is not changed by it.
C5_LostWriteCleanup == [](C5_Files) /\ [][C5_Rows]_vars

\* A set that had staged a file lost to a set whose row, with its file, is
\* in the table.
C5_Witness ==
    /\ \E i \in Insts :
          /\ last[i].op = "set"
          /\ ~last[i].committed
          /\ last[i].staged # NULL
    /\ \E r \in Committed(Cache) :
          r.key = "a" /\ r.filename # NULL /\ FileNamed(r.filename) # {}

\* C6: every Cache row with a filename references a file that exists and
\* whose length is the row's size, in every state of every interleaving.
C6_FilesExist ==
    \A r \in Cache :
       r.filename # NULL =>
          \E f \in files : f.name = r.filename /\ f.data.len = r.size

\* C7: a get that finds a reservation row (store_time null) returns the
\* default and never the row's value column or file.
C7_ReservationNeverReturned ==
    /\ \A i \in Insts :
         (last[i].op = "get" /\ last[i].row # NoRow /\ last[i].row.store_time = NULL)
            => last[i].result = ENOVAL
    /\ \A i \in Insts :
         (self[i].op = "get" /\ self[i].row # NoRow /\ self[i].row.store_time = NULL)
            => self[i].result = ENOVAL /\ self[i].pc = "get_miss"

\* A get found the reservation row of a set in progress, and returned.
C7_Witness ==
    \E i \in Insts :
       /\ last[i].op = "get"
       /\ last[i].row # NoRow
       /\ last[i].row.store_time = NULL
       /\ last[i].result = ENOVAL

\* C8: a get that finds a committed row with an expire_time returns the
\* default when its time is after expire_time, and the stored value when its
\* time is before expire_time and the entry was neither deleted nor
\* overwritten up to the get's return.
C8_Expiry ==
    \A i \in Insts :
       (/\ last[i].op = "get"
        /\ last[i].row # NoRow
        /\ last[i].row.store_time # NULL
        /\ last[i].row.expire_time # NULL) =>
          /\ last[i].now > last[i].row.expire_time => last[i].result = ENOVAL
          /\ (last[i].now < last[i].row.expire_time /\ last[i].intact) =>
                last[i].result = [len |-> last[i].row.size,
                                  id |-> ValueId(last[i].row)]

\* A get returned the default for a row it found after its expire_time.
C8_Witness ==
    \E i \in Insts :
       /\ last[i].op = "get"
       /\ last[i].row.store_time # NULL
       /\ last[i].row.expire_time # NULL
       /\ last[i].now > last[i].row.expire_time
       /\ last[i].result = ENOVAL

C10_NewestKept ==
    (/\ Settings.eviction_policy = "least-recently-stored"
     /\ Settings.size_limit <= page_size * page_count
     /\ self[1].pc = "idle"
     /\ last[1].op = "set"
     /\ last[1].committed) =>
       \E r \in Committed(Cache) :
          r.key = last[1].key /\ ValueId(r) = last[1].data.id

C12_NoEmptyDirs ==
    (self[1].pc = "idle" /\ last[1].op = "check" /\ last[1].fix) =>
       \A d \in dirs :
          \/ \E f \in files : sub_dir(f.name) = d
          \/ \E e \in dirs : Len(e) = 2 /\ Len(d) = 1 /\ e[1] = d[1]

\* The four cases in which get returns the default: no row, a reservation
\* row, a row past its expire_time, a row whose file is missing.
C13_Miss(r) ==
    \/ r.row = NoRow
    \/ r.row.store_time = NULL
    \/ (r.row.expire_time # NULL /\ r.row.expire_time < r.now)
    \/ r.io = "ENOENT"

\* C13: an indexed read raises KeyError exactly when get would return the
\* default (no row, reservation row, expired row, payload file missing), an
\* indexed delete raises KeyError exactly when the key has no row, and get
\* and delete never raise KeyError.
C13_KeyNotFound ==
    \A i \in Insts :
       /\ last[i].op = "getitem" =>
             /\ last[i].raised = "KeyError" <=> C13_Miss(last[i])
             /\ last[i].raised = "none" => last[i].result # ENOVAL
       /\ last[i].op = "get" =>
             /\ last[i].raised # "KeyError"
             /\ last[i].result = ENOVAL <=>
                   (C13_Miss(last[i]) \/ last[i].raised = "IOError")
       /\ last[i].op = "delitem" =>
             (last[i].raised = "KeyError" <=> last[i].absent)
       /\ last[i].op = "delete" => last[i].raised = "none"

\* An indexed read raised KeyError for a row whose file the indexed delete
\* of the other instance, which raised nothing, had removed.
C13_Witness ==
    \E i \in Insts, j \in Insts :
       /\ last[i].op = "getitem"
       /\ last[i].io = "ENOENT"
       /\ last[i].raised = "KeyError"
       /\ last[j].op = "delitem"
       /\ ~last[j].absent
       /\ last[j].raised = "none"

\* C14: a delete of a key with no row returns at once, raises nothing, and
\* leaves the rows, Settings (count, size, hits, misses) and every file and
\* directory as they were.
C14_DeleteAbsent ==
    \A i \in Insts :
       /\ ~(self[i].op = "delete" /\ self[i].absent)
       /\ (last[i].op = "delete" /\ last[i].absent) =>
             /\ last[i].raised = "none"
             /\ last[i].still

\* A delete of a key with no row returned while the other key had a row
\* with its file.
C14_Witness ==
    \E i \in Insts :
       /\ last[i].op = "delete"
       /\ last[i].absent
       /\ \E r \in Cache : r.key # last[i].key /\ FileNamed(r.filename) # {}

\* C15: a get whose Disk.fetch finds the file of a committed, unexpired row
\* missing returns the default, counts a miss if statistics is enabled, does
\* not raise and does not run the policy's update; a fetch that fails with
\* another I/O error makes get raise it.
C15_MissingFile ==
    \A i \in Insts :
       /\ self[i].io = "ENOENT" =>
             /\ self[i].pc = "get_miss"
             /\ attr[i].statistics # 0
             /\ self[i].result = ENOVAL
       /\ (last[i].op = "get" /\ last[i].io = "ENOENT") =>
             /\ last[i].result = ENOVAL
             /\ last[i].raised = "none"
             /\ last[i].counted = IF attr[i].statistics # 0 THEN "miss" ELSE "none"
             /\ last[i].row.store_time # NULL
             /\ last[i].row.filename # NULL
       /\ last[i].io = "EIO" => last[i].raised = "IOError"

\* A get returned the default for a committed row with a filename whose
\* file was gone, and counted the miss.
C15_Witness ==
    \E i \in Insts :
       /\ last[i].op = "get"
       /\ last[i].io = "ENOENT"
       /\ last[i].row.filename # NULL
       /\ last[i].counted = "miss"
       /\ last[i].result = ENOVAL

\* C16 as stated: while statistics is enabled, no step of get, set, delete,
\* expire, evict, clear, check or stats lowers hits or misses.
C16_Monotone ==
    [][Settings.statistics # 0 =>
          /\ Settings'.hits >= Settings.hits
          /\ Settings'.misses >= Settings.misses]_vars

\* C16 as amended: while statistics is enabled, a step lowers hits or misses
\* only if it is the reset of a stats(reset=True), which sets it to 0.
C16_MonotoneButReset ==
    [][Settings.statistics # 0 =>
          /\ \/ Settings'.hits >= Settings.hits
             \/ \E i \in Insts : /\ self[i].pc = "stats_reset_hits"
                                 /\ self[i].reset
                                 /\ Settings'.hits = 0
          /\ \/ Settings'.misses >= Settings.misses
             \/ \E i \in Insts : /\ self[i].pc = "stats_reset_misses"
                                 /\ self[i].reset
                                 /\ Settings'.misses = 0]_vars

\* A stats(reset=True) that read a hit has set hits to 0, with statistics
\* enabled.
C16_Witness ==
    \E i \in Insts :
       /\ self[i].pc = "stats_reset_misses"
       /\ self[i].pair[1] > 0
       /\ Settings.hits = 0
       /\ Settings.statistics # 0

\* C17: when a constructor that was given a keyword argument whose name is
\* not a recognized setting has returned, the Settings table holds a row
\* with that name and value (which a later instance then reads back).
C17_UnknownPersisted ==
    \A i \in Insts :
       (self[i].pc = "idle" /\ "unknown" \in DOMAIN attr[i]) =>
          /\ "unknown" \in DOMAIN Settings
          /\ Settings["unknown"] = attr[i]["unknown"]

\* C18: when expire has returned on a cache with no other operation in
\* progress, no row it found with an expire_time earlier than its time
\* remains, and every other row it found, with its file, is unchanged.
C18_ExpireSweeps ==
    (self[1].pc = "idle" /\ last[1].op = "expire") =>
       /\ last[1].gone
       /\ last[1].kept

\* C19, the result: when evict(tag) has returned on a cache with no other
\* operation in progress, no row it found with that tag remains, the file
\* of each of them is gone, and every other row it found, with its file, is
\* unchanged.
C19_Result ==
    (self[1].pc = "idle" /\ last[1].op = "evict") =>
       /\ last[1].gone
       /\ last[1].kept
       /\ \A r \in Cache : r.tag # last[1].tag

\* C19: evict(tag) removes exactly the rows with the tag, and their files,
\* and every evict that was called returns.
C19_EvictTag ==
    /\ [](C19_Result)
    /\ (self[1].op = "evict") ~> (self[1].pc = "idle")

\* An evict returned that deleted, in more chunks than one, two rows with
\* the tag and their files.
C19_Witness ==
    /\ self[1].pc = "idle"
    /\ last[1].op = "evict"
    /\ last[1].tag = 7
    /\ last[1].cull_limit = 1
    /\ last[1].removed = 2
    /\ Cache = {}
    /\ files = {}

\* C20: when the wrapper of a barrier made with a TTL has finished a call,
\* either it returned the result of the entry it found, without calling the
\* function, and the test -delta * ln(U) < expire_time - now held for its
\* draw, with the recorded expire_time still ahead; or it called the
\* function exactly once, called set with (result, delta, expire_time) and
\* the TTL, and returned the fresh result.
C20_Barrier ==
    \A i \in Insts :
        LET w == self[i].wrap
        IN (w.pc = "none" /\ w.outcome # "none" /\ w.expire # NULL) =>
              \/ /\ w.outcome = "cached"
                 /\ w.entry # <<>>
                 /\ w.calls = 0
                 /\ Early(w.entry[2], w.draw, w.ttl)
                 /\ w.ttl > 0
                 /\ w.returned = w.entry[1]
              \/ /\ w.outcome = "fresh"
                 /\ w.calls = 1
                 /\ last[i].op = "set"
                 /\ last[i].data.tuple = <<w.result, w.delta, w.expire_time>>
                 /\ last[i].expire = w.expire
                 /\ w.returned = w.result

\* The storage decision as the table of the specification gives it, for a
\* value d and the threshold t: the mode, whether a file is written, and
\* the size recorded.
C21_Table(d, t) ==
    IF (d.type = "int" /\ ~d.big) \/ d.type = "float"
    THEN [mode |-> MODE_RAW, file |-> FALSE, size |-> 0]
    ELSE IF d.type = "text"
    THEN IF d.len < t
         THEN [mode |-> MODE_RAW, file |-> FALSE, size |-> 0]
         ELSE [mode |-> MODE_TEXT, file |-> TRUE, size |-> d.len + d.wide]
    ELSE IF d.type = "bytes"
    THEN IF d.len < t
         THEN [mode |-> MODE_RAW, file |-> FALSE, size |-> d.len]
         ELSE [mode |-> MODE_BINARY, file |-> TRUE, size |-> d.len]
    ELSE IF d.type = "file"
    THEN [mode |-> MODE_BINARY, file |-> TRUE, size |-> d.len]
    ELSE IF d.len < t
         THEN [mode |-> MODE_PICKLE, file |-> FALSE, size |-> 0]
         ELSE [mode |-> MODE_PICKLE, file |-> TRUE, size |-> d.len]

\* C21: the row a set has committed has the mode and the size the table
\* gives for its value and the threshold, and a filename that is not null
\* exactly where the table says a file is written; that file then holds the
\* value.
C21_Codec ==
    (self[1].pc = "idle" /\ last[1].op = "set" /\ last[1].committed) =>
        LET e == C21_Table(last[1].data, large_value_threshold)
            r == last[1].row
        IN /\ r.mode = e.mode
           /\ r.size = e.size
           /\ (r.filename # NULL) = e.file
           /\ e.file => \E f \in files : f.name = r.filename
                                          /\ f.data = last[1].data
           /\ ~e.file => r.value = last[1].data

\* A text of threshold length with a character of two bytes was stored in a
\* TEXT file whose size is one more than its length, after an integer
\* beyond the native range was pickled inline.
C21_Witness ==
    /\ self[1].pc = "idle"
    /\ last[1].op = "set"
    /\ last[1].committed
    /\ last[1].data.type = "text"
    /\ last[1].data.len = large_value_threshold
    /\ last[1].row.mode = MODE_TEXT
    /\ last[1].row.size = large_value_threshold + 1
    /\ prev[1].op = "set"
    /\ prev[1].data.type = "int"
    /\ prev[1].data.big
    /\ prev[1].data.len < large_value_threshold

\* The rows a cull pass deleted in one of its two loops, in order.
C22_Of(v, loop) == SelectSeq(v, LAMBDA x : x.loop = loop)

\* C22: when a set that committed has returned on a cache with no other
\* operation in progress, it deleted at most cull_limit rows; the rows of
\* the expiry sweep come first, each with an expire_time earlier than the
\* set's now, in ascending expire_time; rows were deleted by policy only if
\* the sweep deleted fewer than cull_limit and the total size was found at
\* or above size_limit, and at most the quota the sweep left; and if the
\* total size was not found at or above size_limit every deleted row was
\* expired.
C22_CullPass ==
    (self[1].pc = "idle" /\ last[1].op = "set" /\ last[1].committed) =>
        LET v == last[1].victims
            swept == C22_Of(v, "expired")
            evicted == C22_Of(v, "policy")
            over == /\ last[1].total_size # NULL
                    /\ last[1].total_size >= Settings.size_limit
        IN /\ Len(v) <= Settings.cull_limit
           /\ v = swept \o evicted
           /\ \A n \in 1..Len(swept) :
                 /\ swept[n].row.expire_time # NULL
                 /\ swept[n].row.expire_time < last[1].now
           /\ \A m, n \in 1..Len(swept) :
                 m < n => swept[m].row.expire_time <= swept[n].row.expire_time
           /\ evicted # <<>> => (Len(swept) < Settings.cull_limit /\ over)
           /\ Len(evicted) <= Settings.cull_limit - Len(swept)
           /\ ~over => evicted = <<>>

\* A set swept two expired rows in the order of their expire_time, the row
\* with the higher rowid first.
C22_Witness ==
    /\ self[1].pc = "idle"
    /\ last[1].op = "set"
    /\ last[1].committed
    /\ Len(last[1].victims) = 2
    /\ last[1].victims[1].loop = "expired"
    /\ last[1].victims[2].loop = "expired"
    /\ last[1].victims[1].row.expire_time < last[1].victims[2].row.expire_time
    /\ last[1].victims[1].row.rowid > last[1].victims[2].row.rowid

\* C23, the read: when a get that returned a value has returned on a cache
\* with no other operation in progress, the row it read has one more in
\* access_count under least-frequently-used, the time of the read in
\* access_time under least-recently-used, and is as it was under
\* least-recently-stored; nothing else of the row and no other row changed.
C23_Read ==
    (self[1].pc = "idle" /\ last[1].op = "get" /\ last[1].result # ENOVAL) =>
        LET q == last[1].row
            policy == Settings.eviction_policy
        IN /\ last[1].rest
           /\ \E r \in Cache :
                 /\ r.rowid = q.rowid
                 /\ r = IF policy = "least-frequently-used"
                        THEN [q EXCEPT !.access_count = q.access_count + 1]
                        ELSE IF policy = "least-recently-used"
                        THEN [q EXCEPT !.access_time = clock]
                        ELSE q
           /\ clock >= last[1].now

\* The ordering key of each policy as the table of the specification gives
\* it.
C23_Key(policy) ==
    IF policy = "least-frequently-used" THEN "access_count"
    ELSE IF policy = "least-recently-used" THEN "access_time"
    ELSE "store_time"

\* C23, the eviction: the rows a set deleted by policy are in ascending
\* order of the policy's column (access_count, access_time, store_time),
\* and no row it left has less in that column than one it deleted; the row
\* the set wrote has access_count 0.
C23_Evict ==
    (self[1].pc = "idle" /\ last[1].op = "set" /\ last[1].committed) =>
        LET evicted == C22_Of(last[1].victims, "policy")
            col == C23_Key(Settings.eviction_policy)
        IN /\ \A m, n \in 1..Len(evicted) :
                 m < n => evicted[m].row[col] <= evicted[n].row[col]
           /\ \A n \in 1..Len(evicted) : \A r \in Cache :
                 evicted[n].row[col] <= r[col]
           /\ last[1].row.access_count = 0

\* C23: a get that returns a value applies the read side effect of the
\* eviction policy to the row it read and to nothing else, policy eviction
\* removes rows in ascending order of the policy's ordering key, and a set
\* resets access_count to 0.
C23_Policy == C23_Read /\ C23_Evict

\* Under least-frequently-used a key was read and the other key was then
\* set: the set evicted the row it wrote, never read since, and then the
\* row that was read once.
C23_Witness ==
    /\ self[1].pc = "idle"
    /\ Settings.eviction_policy = "least-frequently-used"
    /\ last[1].op = "set"
    /\ last[1].committed
    /\ prev[1].op = "get"
    /\ prev[1].key # last[1].key
    /\ Len(last[1].victims) = 2
    /\ last[1].victims[1].loop = "policy"
    /\ last[1].victims[1].row.access_count = 0
    /\ last[1].victims[2].row.access_count = 1

\* C24: in every interleaving, a DELETE ... WHERE rowid = ? AND version = ?
\* issued with a triple from an earlier select removes only the row that
\* select saw, with the payload it held then, never one created or
\* overwritten since; and a file is unlinked only after the DELETE of its
\* row affected one row.
C24_Incarnation ==
    \A i \in Insts :
        /\ ~self[i].wrong
        /\ ~last[i].wrong
        /\ self[i].pc = "unlink" => self[i].rowcount = 1

\* C25: once every operation has returned, every value file on disk is
\* named by the filename of exactly one Cache row.
C25_FilesTracked ==
    (\A i \in Insts : self[i].pc = "idle") =>
        \A f \in files : Cardinality({r \in Cache : r.filename = f.name}) = 1

\* C26, one statement: a step of the constructor leaves every row of the
\* Settings table as it is, count, size, hits and misses among them, but
\* the rows of the settings its keyword arguments override.
C26_Step ==
    \A i \in Insts :
        (self[i].op = "open" /\ self'[i] # self[i]) =>
            \A k \in DOMAIN Settings \ DOMAIN self[i].settings :
                /\ k \in DOMAIN Settings'
                /\ Settings'[k] = Settings[k]

\* C26: opening another instance on a directory in use changes no stored
\* setting that is not overridden and none of the counters, also while
\* another instance commits sets and deletes.
C26_OpenPreserves == [][C26_Step]_vars

====
